---- MODULE Spec2Model ----
(***************************************************************************)
(* Caption ingestion pipeline of the dapmeet backend:                      *)
(*   - DecoderService      (services/decoder.py)                           *)
(*   - MappingService      (services/mapping.py)                           *)
(*   - MessageCacheService (services/message_cache.py)                     *)
(*   - the request handlers of api/meetings.py that call them.             *)
(*                                                                         *)
(* Representation.                                                         *)
(*   bytes   : sequences over 0..255, indexed from 0 with At(d, i)         *)
(*   str     : sequences of Unicode code points                            *)
(*   uint32  : pairs <<hi, lo>> of 16-bit halves (value hi*65536 + lo),    *)
(*             because TLC's integers are 32-bit signed            *)
(*   None    : <<-1>> where the value would be a str, a uint32 or a tuple, *)
(*             -1 (NoneInt) where it would be a non-negative int           *)
(***************************************************************************)
EXTENDS Integers, Sequences, FiniteSets, TLC

None == <<-1>>
NoneInt == -1

(* a value that is not yet there *)
NotYet == [kind |-> "not_yet"]

(* B(v) with v evaluated once, before B: keeps the evaluation of a fold    *)
(* from nesting one level per element                                      *)
Strict(v, B(_)) == CHOOSE r \in {B(y) : y \in {v}} : TRUE

(* a local variable: B applied to the value v, which is written once *)
With(v, B(_)) == B(v)

Min(a, b) == IF a < b THEN a ELSE b
Max(a, b) == IF a > b THEN a ELSE b

(* d[i] with Python's 0-based index, 0 <= i < len(d) *)
At(d, i) == d[i + 1]

(* d[a:b] for 0 <= a, with b clamped to len(d) *)
Slice(d, a, b) == SubSeq(d, a + 1, Min(b, Len(d)))

(* d[a:] *)
SliceFrom(d, a) == SubSeq(d, a + 1, Len(d))

SeqToSet(s) == {s[i] : i \in 1..Len(s)}

(* least i in lo..hi with P(i), or -1 *)
First(lo, hi, P(_)) ==
    IF \E i \in lo..hi : P(i)
    THEN CHOOSE i \in lo..hi : P(i) /\ \A j \in lo..(i - 1) : ~P(j)
    ELSE -1

(* number of positions of s holding a value of set S *)
CountIn(s, S) == Cardinality({i \in 1..Len(s) : s[i] \in S})

(* ''.join(c for c in s if c in S) *)
FilterSeq(s, S) == SelectSeq(s, LAMBDA c : c \in S)

(* s.find(p, from): least 0-based i >= from with s[i:i+len(p)] = p, else -1 *)
FindFrom(s, p, from) ==
    LET hits == {i \in from..(Len(s) - Len(p)) : SubSeq(s, i + 1, i + Len(p)) = p}
    IN  IF hits = {} THEN -1 ELSE CHOOSE i \in hits : \A j \in hits : i <= j

Find(s, p) == FindFrom(s, p, 0)

(* p in s *)
Contains(s, p) == Find(s, p) >= 0

(***************************************************************************)
(* 32-bit and bitwise arithmetic                                           *)
(***************************************************************************)
RECURSIVE Xor(_, _)
Xor(a, b) ==
    IF a = 0 THEN b
    ELSE IF b = 0 THEN a
    ELSE ((a + b) % 2) + 2 * Xor(a \div 2, b \div 2)

U32Xor(x, y) == <<Xor(x[1], y[1]), Xor(x[2], y[2])>>

(* x >> 1 and x >> 8 on <<hi, lo>> *)
U32Shr1(x) == <<x[1] \div 2, (x[1] % 2) * 32768 + (x[2] \div 2)>>
U32Shr8(x) == <<x[1] \div 256, (x[1] % 256) * 256 + (x[2] \div 256)>>

(* struct.unpack('<I', b)[0] for a 4-byte b *)
unpack_I(b) == <<b[4] * 256 + b[3], b[2] * 256 + b[1]>>

(* struct.pack('<I', x) *)
pack_I(x) == <<x[2] % 256, x[2] \div 256, x[1] % 256, x[1] \div 256>>

U32(n) == <<n \div 65536, n % 65536>>

(***************************************************************************)
(* str methods (Python 3.11, Unicode 14.0.0), for every code point         *)
(***************************************************************************)
REPLACEMENT == 65533

(* whether c lies in one of the ranges *)
InRanges(c, ranges) == \E r \in ranges : r[1] <= c /\ c <= r[2]

(* the ranges <<first, last>> of the code points from U+0800 on for which   *)
(* str.isprintable holds                                                   *)
PrintableRanges ==
    {<<2048, 2093>>, <<2096, 2110>>, <<2112, 2139>>, <<2142, 2142>>,
     <<2144, 2154>>, <<2160, 2190>>, <<2200, 2273>>, <<2275, 2435>>,
     <<2437, 2444>>, <<2447, 2448>>, <<2451, 2472>>, <<2474, 2480>>,
     <<2482, 2482>>, <<2486, 2489>>, <<2492, 2500>>, <<2503, 2504>>,
     <<2507, 2510>>, <<2519, 2519>>, <<2524, 2525>>, <<2527, 2531>>,
     <<2534, 2558>>, <<2561, 2563>>, <<2565, 2570>>, <<2575, 2576>>,
     <<2579, 2600>>, <<2602, 2608>>, <<2610, 2611>>, <<2613, 2614>>,
     <<2616, 2617>>, <<2620, 2620>>, <<2622, 2626>>, <<2631, 2632>>,
     <<2635, 2637>>, <<2641, 2641>>, <<2649, 2652>>, <<2654, 2654>>,
     <<2662, 2678>>, <<2689, 2691>>, <<2693, 2701>>, <<2703, 2705>>,
     <<2707, 2728>>, <<2730, 2736>>, <<2738, 2739>>, <<2741, 2745>>,
     <<2748, 2757>>, <<2759, 2761>>, <<2763, 2765>>, <<2768, 2768>>,
     <<2784, 2787>>, <<2790, 2801>>, <<2809, 2815>>, <<2817, 2819>>,
     <<2821, 2828>>, <<2831, 2832>>, <<2835, 2856>>, <<2858, 2864>>,
     <<2866, 2867>>, <<2869, 2873>>, <<2876, 2884>>, <<2887, 2888>>,
     <<2891, 2893>>, <<2901, 2903>>, <<2908, 2909>>, <<2911, 2915>>,
     <<2918, 2935>>, <<2946, 2947>>, <<2949, 2954>>, <<2958, 2960>>,
     <<2962, 2965>>, <<2969, 2970>>, <<2972, 2972>>, <<2974, 2975>>,
     <<2979, 2980>>, <<2984, 2986>>, <<2990, 3001>>, <<3006, 3010>>,
     <<3014, 3016>>, <<3018, 3021>>, <<3024, 3024>>, <<3031, 3031>>,
     <<3046, 3066>>, <<3072, 3084>>, <<3086, 3088>>, <<3090, 3112>>,
     <<3114, 3129>>, <<3132, 3140>>, <<3142, 3144>>, <<3146, 3149>>,
     <<3157, 3158>>, <<3160, 3162>>, <<3165, 3165>>, <<3168, 3171>>,
     <<3174, 3183>>, <<3191, 3212>>, <<3214, 3216>>, <<3218, 3240>>,
     <<3242, 3251>>, <<3253, 3257>>, <<3260, 3268>>, <<3270, 3272>>,
     <<3274, 3277>>, <<3285, 3286>>, <<3293, 3294>>, <<3296, 3299>>,
     <<3302, 3311>>, <<3313, 3314>>, <<3328, 3340>>, <<3342, 3344>>,
     <<3346, 3396>>, <<3398, 3400>>, <<3402, 3407>>, <<3412, 3427>>,
     <<3430, 3455>>, <<3457, 3459>>, <<3461, 3478>>, <<3482, 3505>>,
     <<3507, 3515>>, <<3517, 3517>>, <<3520, 3526>>, <<3530, 3530>>,
     <<3535, 3540>>, <<3542, 3542>>, <<3544, 3551>>, <<3558, 3567>>,
     <<3570, 3572>>, <<3585, 3642>>, <<3647, 3675>>, <<3713, 3714>>,
     <<3716, 3716>>, <<3718, 3722>>, <<3724, 3747>>, <<3749, 3749>>,
     <<3751, 3773>>, <<3776, 3780>>, <<3782, 3782>>, <<3784, 3789>>,
     <<3792, 3801>>, <<3804, 3807>>, <<3840, 3911>>, <<3913, 3948>>,
     <<3953, 3991>>, <<3993, 4028>>, <<4030, 4044>>, <<4046, 4058>>,
     <<4096, 4293>>, <<4295, 4295>>, <<4301, 4301>>, <<4304, 4680>>,
     <<4682, 4685>>, <<4688, 4694>>, <<4696, 4696>>, <<4698, 4701>>,
     <<4704, 4744>>, <<4746, 4749>>, <<4752, 4784>>, <<4786, 4789>>,
     <<4792, 4798>>, <<4800, 4800>>, <<4802, 4805>>, <<4808, 4822>>,
     <<4824, 4880>>, <<4882, 4885>>, <<4888, 4954>>, <<4957, 4988>>,
     <<4992, 5017>>, <<5024, 5109>>, <<5112, 5117>>, <<5120, 5759>>,
     <<5761, 5788>>, <<5792, 5880>>, <<5888, 5909>>, <<5919, 5942>>,
     <<5952, 5971>>, <<5984, 5996>>, <<5998, 6000>>, <<6002, 6003>>,
     <<6016, 6109>>, <<6112, 6121>>, <<6128, 6137>>, <<6144, 6157>>,
     <<6159, 6169>>, <<6176, 6264>>, <<6272, 6314>>, <<6320, 6389>>,
     <<6400, 6430>>, <<6432, 6443>>, <<6448, 6459>>, <<6464, 6464>>,
     <<6468, 6509>>, <<6512, 6516>>, <<6528, 6571>>, <<6576, 6601>>,
     <<6608, 6618>>, <<6622, 6683>>, <<6686, 6750>>, <<6752, 6780>>,
     <<6783, 6793>>, <<6800, 6809>>, <<6816, 6829>>, <<6832, 6862>>,
     <<6912, 6988>>, <<6992, 7038>>, <<7040, 7155>>, <<7164, 7223>>,
     <<7227, 7241>>, <<7245, 7304>>, <<7312, 7354>>, <<7357, 7367>>,
     <<7376, 7418>>, <<7424, 7957>>, <<7960, 7965>>, <<7968, 8005>>,
     <<8008, 8013>>, <<8016, 8023>>, <<8025, 8025>>, <<8027, 8027>>,
     <<8029, 8029>>, <<8031, 8061>>, <<8064, 8116>>, <<8118, 8132>>,
     <<8134, 8147>>, <<8150, 8155>>, <<8157, 8175>>, <<8178, 8180>>,
     <<8182, 8190>>, <<8208, 8231>>, <<8240, 8286>>, <<8304, 8305>>,
     <<8308, 8334>>, <<8336, 8348>>, <<8352, 8384>>, <<8400, 8432>>,
     <<8448, 8587>>, <<8592, 9254>>, <<9280, 9290>>, <<9312, 11123>>,
     <<11126, 11157>>, <<11159, 11507>>, <<11513, 11557>>, <<11559, 11559>>,
     <<11565, 11565>>, <<11568, 11623>>, <<11631, 11632>>, <<11647, 11670>>,
     <<11680, 11686>>, <<11688, 11694>>, <<11696, 11702>>, <<11704, 11710>>,
     <<11712, 11718>>, <<11720, 11726>>, <<11728, 11734>>, <<11736, 11742>>,
     <<11744, 11869>>, <<11904, 11929>>, <<11931, 12019>>, <<12032, 12245>>,
     <<12272, 12283>>, <<12289, 12351>>, <<12353, 12438>>, <<12441, 12543>>,
     <<12549, 12591>>, <<12593, 12686>>, <<12688, 12771>>, <<12784, 12830>>,
     <<12832, 42124>>, <<42128, 42182>>, <<42192, 42539>>, <<42560, 42743>>,
     <<42752, 42954>>, <<42960, 42961>>, <<42963, 42963>>, <<42965, 42969>>,
     <<42994, 43052>>, <<43056, 43065>>, <<43072, 43127>>, <<43136, 43205>>,
     <<43214, 43225>>, <<43232, 43347>>, <<43359, 43388>>, <<43392, 43469>>,
     <<43471, 43481>>, <<43486, 43518>>, <<43520, 43574>>, <<43584, 43597>>,
     <<43600, 43609>>, <<43612, 43714>>, <<43739, 43766>>, <<43777, 43782>>,
     <<43785, 43790>>, <<43793, 43798>>, <<43808, 43814>>, <<43816, 43822>>,
     <<43824, 43883>>, <<43888, 44013>>, <<44016, 44025>>, <<44032, 55203>>,
     <<55216, 55238>>, <<55243, 55291>>, <<63744, 64109>>, <<64112, 64217>>,
     <<64256, 64262>>, <<64275, 64279>>, <<64285, 64310>>, <<64312, 64316>>,
     <<64318, 64318>>, <<64320, 64321>>, <<64323, 64324>>, <<64326, 64450>>,
     <<64467, 64911>>, <<64914, 64967>>, <<64975, 64975>>, <<65008, 65049>>,
     <<65056, 65106>>, <<65108, 65126>>, <<65128, 65131>>, <<65136, 65140>>,
     <<65142, 65276>>, <<65281, 65470>>, <<65474, 65479>>, <<65482, 65487>>,
     <<65490, 65495>>, <<65498, 65500>>, <<65504, 65510>>, <<65512, 65518>>,
     <<65532, 65533>>, <<65536, 65547>>, <<65549, 65574>>, <<65576, 65594>>,
     <<65596, 65597>>, <<65599, 65613>>, <<65616, 65629>>, <<65664, 65786>>,
     <<65792, 65794>>, <<65799, 65843>>, <<65847, 65934>>, <<65936, 65948>>,
     <<65952, 65952>>, <<66000, 66045>>, <<66176, 66204>>, <<66208, 66256>>,
     <<66272, 66299>>, <<66304, 66339>>, <<66349, 66378>>, <<66384, 66426>>,
     <<66432, 66461>>, <<66463, 66499>>, <<66504, 66517>>, <<66560, 66717>>,
     <<66720, 66729>>, <<66736, 66771>>, <<66776, 66811>>, <<66816, 66855>>,
     <<66864, 66915>>, <<66927, 66938>>, <<66940, 66954>>, <<66956, 66962>>,
     <<66964, 66965>>, <<66967, 66977>>, <<66979, 66993>>, <<66995, 67001>>,
     <<67003, 67004>>, <<67072, 67382>>, <<67392, 67413>>, <<67424, 67431>>,
     <<67456, 67461>>, <<67463, 67504>>, <<67506, 67514>>, <<67584, 67589>>,
     <<67592, 67592>>, <<67594, 67637>>, <<67639, 67640>>, <<67644, 67644>>,
     <<67647, 67669>>, <<67671, 67742>>, <<67751, 67759>>, <<67808, 67826>>,
     <<67828, 67829>>, <<67835, 67867>>, <<67871, 67897>>, <<67903, 67903>>,
     <<67968, 68023>>, <<68028, 68047>>, <<68050, 68099>>, <<68101, 68102>>,
     <<68108, 68115>>, <<68117, 68119>>, <<68121, 68149>>, <<68152, 68154>>,
     <<68159, 68168>>, <<68176, 68184>>, <<68192, 68255>>, <<68288, 68326>>,
     <<68331, 68342>>, <<68352, 68405>>, <<68409, 68437>>, <<68440, 68466>>,
     <<68472, 68497>>, <<68505, 68508>>, <<68521, 68527>>, <<68608, 68680>>,
     <<68736, 68786>>, <<68800, 68850>>, <<68858, 68903>>, <<68912, 68921>>,
     <<69216, 69246>>, <<69248, 69289>>, <<69291, 69293>>, <<69296, 69297>>,
     <<69376, 69415>>, <<69424, 69465>>, <<69488, 69513>>, <<69552, 69579>>,
     <<69600, 69622>>, <<69632, 69709>>, <<69714, 69749>>, <<69759, 69820>>,
     <<69822, 69826>>, <<69840, 69864>>, <<69872, 69881>>, <<69888, 69940>>,
     <<69942, 69959>>, <<69968, 70006>>, <<70016, 70111>>, <<70113, 70132>>,
     <<70144, 70161>>, <<70163, 70206>>, <<70272, 70278>>, <<70280, 70280>>,
     <<70282, 70285>>, <<70287, 70301>>, <<70303, 70313>>, <<70320, 70378>>,
     <<70384, 70393>>, <<70400, 70403>>, <<70405, 70412>>, <<70415, 70416>>,
     <<70419, 70440>>, <<70442, 70448>>, <<70450, 70451>>, <<70453, 70457>>,
     <<70459, 70468>>, <<70471, 70472>>, <<70475, 70477>>, <<70480, 70480>>,
     <<70487, 70487>>, <<70493, 70499>>, <<70502, 70508>>, <<70512, 70516>>,
     <<70656, 70747>>, <<70749, 70753>>, <<70784, 70855>>, <<70864, 70873>>,
     <<71040, 71093>>, <<71096, 71133>>, <<71168, 71236>>, <<71248, 71257>>,
     <<71264, 71276>>, <<71296, 71353>>, <<71360, 71369>>, <<71424, 71450>>,
     <<71453, 71467>>, <<71472, 71494>>, <<71680, 71739>>, <<71840, 71922>>,
     <<71935, 71942>>, <<71945, 71945>>, <<71948, 71955>>, <<71957, 71958>>,
     <<71960, 71989>>, <<71991, 71992>>, <<71995, 72006>>, <<72016, 72025>>,
     <<72096, 72103>>, <<72106, 72151>>, <<72154, 72164>>, <<72192, 72263>>,
     <<72272, 72354>>, <<72368, 72440>>, <<72704, 72712>>, <<72714, 72758>>,
     <<72760, 72773>>, <<72784, 72812>>, <<72816, 72847>>, <<72850, 72871>>,
     <<72873, 72886>>, <<72960, 72966>>, <<72968, 72969>>, <<72971, 73014>>,
     <<73018, 73018>>, <<73020, 73021>>, <<73023, 73031>>, <<73040, 73049>>,
     <<73056, 73061>>, <<73063, 73064>>, <<73066, 73102>>, <<73104, 73105>>,
     <<73107, 73112>>, <<73120, 73129>>, <<73440, 73464>>, <<73648, 73648>>,
     <<73664, 73713>>, <<73727, 74649>>, <<74752, 74862>>, <<74864, 74868>>,
     <<74880, 75075>>, <<77712, 77810>>, <<77824, 78894>>, <<82944, 83526>>,
     <<92160, 92728>>, <<92736, 92766>>, <<92768, 92777>>, <<92782, 92862>>,
     <<92864, 92873>>, <<92880, 92909>>, <<92912, 92917>>, <<92928, 92997>>,
     <<93008, 93017>>, <<93019, 93025>>, <<93027, 93047>>, <<93053, 93071>>,
     <<93760, 93850>>, <<93952, 94026>>, <<94031, 94087>>, <<94095, 94111>>,
     <<94176, 94180>>, <<94192, 94193>>, <<94208, 100343>>,
     <<100352, 101589>>, <<101632, 101640>>, <<110576, 110579>>,
     <<110581, 110587>>, <<110589, 110590>>, <<110592, 110882>>,
     <<110928, 110930>>, <<110948, 110951>>, <<110960, 111355>>,
     <<113664, 113770>>, <<113776, 113788>>, <<113792, 113800>>,
     <<113808, 113817>>, <<113820, 113823>>, <<118528, 118573>>,
     <<118576, 118598>>, <<118608, 118723>>, <<118784, 119029>>,
     <<119040, 119078>>, <<119081, 119154>>, <<119163, 119274>>,
     <<119296, 119365>>, <<119520, 119539>>, <<119552, 119638>>,
     <<119648, 119672>>, <<119808, 119892>>, <<119894, 119964>>,
     <<119966, 119967>>, <<119970, 119970>>, <<119973, 119974>>,
     <<119977, 119980>>, <<119982, 119993>>, <<119995, 119995>>,
     <<119997, 120003>>, <<120005, 120069>>, <<120071, 120074>>,
     <<120077, 120084>>, <<120086, 120092>>, <<120094, 120121>>,
     <<120123, 120126>>, <<120128, 120132>>, <<120134, 120134>>,
     <<120138, 120144>>, <<120146, 120485>>, <<120488, 120779>>,
     <<120782, 121483>>, <<121499, 121503>>, <<121505, 121519>>,
     <<122624, 122654>>, <<122880, 122886>>, <<122888, 122904>>,
     <<122907, 122913>>, <<122915, 122916>>, <<122918, 122922>>,
     <<123136, 123180>>, <<123184, 123197>>, <<123200, 123209>>,
     <<123214, 123215>>, <<123536, 123566>>, <<123584, 123641>>,
     <<123647, 123647>>, <<124896, 124902>>, <<124904, 124907>>,
     <<124909, 124910>>, <<124912, 124926>>, <<124928, 125124>>,
     <<125127, 125142>>, <<125184, 125259>>, <<125264, 125273>>,
     <<125278, 125279>>, <<126065, 126132>>, <<126209, 126269>>,
     <<126464, 126467>>, <<126469, 126495>>, <<126497, 126498>>,
     <<126500, 126500>>, <<126503, 126503>>, <<126505, 126514>>,
     <<126516, 126519>>, <<126521, 126521>>, <<126523, 126523>>,
     <<126530, 126530>>, <<126535, 126535>>, <<126537, 126537>>,
     <<126539, 126539>>, <<126541, 126543>>, <<126545, 126546>>,
     <<126548, 126548>>, <<126551, 126551>>, <<126553, 126553>>,
     <<126555, 126555>>, <<126557, 126557>>, <<126559, 126559>>,
     <<126561, 126562>>, <<126564, 126564>>, <<126567, 126570>>,
     <<126572, 126578>>, <<126580, 126583>>, <<126585, 126588>>,
     <<126590, 126590>>, <<126592, 126601>>, <<126603, 126619>>,
     <<126625, 126627>>, <<126629, 126633>>, <<126635, 126651>>,
     <<126704, 126705>>, <<126976, 127019>>, <<127024, 127123>>,
     <<127136, 127150>>, <<127153, 127167>>, <<127169, 127183>>,
     <<127185, 127221>>, <<127232, 127405>>, <<127462, 127490>>,
     <<127504, 127547>>, <<127552, 127560>>, <<127568, 127569>>,
     <<127584, 127589>>, <<127744, 128727>>, <<128733, 128748>>,
     <<128752, 128764>>, <<128768, 128883>>, <<128896, 128984>>,
     <<128992, 129003>>, <<129008, 129008>>, <<129024, 129035>>,
     <<129040, 129095>>, <<129104, 129113>>, <<129120, 129159>>,
     <<129168, 129197>>, <<129200, 129201>>, <<129280, 129619>>,
     <<129632, 129645>>, <<129648, 129652>>, <<129656, 129660>>,
     <<129664, 129670>>, <<129680, 129708>>, <<129712, 129722>>,
     <<129728, 129733>>, <<129744, 129753>>, <<129760, 129767>>,
     <<129776, 129782>>, <<129792, 129938>>, <<129940, 129994>>,
     <<130032, 130041>>, <<131072, 173791>>, <<173824, 177976>>,
     <<177984, 178205>>, <<178208, 183969>>, <<183984, 191456>>,
     <<194560, 195101>>, <<196608, 201546>>, <<917760, 917999>>}

(* str.isprintable for one character *)
IsPrintable(c) ==
    IF c < 2048
    THEN \/ c \in 32..126 \/ c \in 161..172 \/ c \in 174..887 \/ c \in 890..895
         \/ c \in 900..906 \/ c \in 910..929 \/ c \in 931..1327
         \/ c \in 1329..1366 \/ c \in 1369..1418 \/ c \in 1421..1423
         \/ c \in 1425..1479 \/ c \in 1488..1514 \/ c \in 1519..1524
         \/ c \in 1542..1563 \/ c \in 1565..1756 \/ c \in 1758..1805
         \/ c \in 1808..1866 \/ c \in 1869..1969 \/ c \in 1984..2042
         \/ c \in 2045..2047 \/ c \in {908}
    ELSE InRanges(c, PrintableRanges)

(* the ranges <<first, last>> of the code points from U+0800 on for which   *)
(* str.isalnum holds                                                       *)
AlnumRanges ==
    {<<2048, 2069>>, <<2074, 2074>>, <<2084, 2084>>, <<2088, 2088>>,
     <<2112, 2136>>, <<2144, 2154>>, <<2160, 2183>>, <<2185, 2190>>,
     <<2208, 2249>>, <<2308, 2361>>, <<2365, 2365>>, <<2384, 2384>>,
     <<2392, 2401>>, <<2406, 2415>>, <<2417, 2432>>, <<2437, 2444>>,
     <<2447, 2448>>, <<2451, 2472>>, <<2474, 2480>>, <<2482, 2482>>,
     <<2486, 2489>>, <<2493, 2493>>, <<2510, 2510>>, <<2524, 2525>>,
     <<2527, 2529>>, <<2534, 2545>>, <<2548, 2553>>, <<2556, 2556>>,
     <<2565, 2570>>, <<2575, 2576>>, <<2579, 2600>>, <<2602, 2608>>,
     <<2610, 2611>>, <<2613, 2614>>, <<2616, 2617>>, <<2649, 2652>>,
     <<2654, 2654>>, <<2662, 2671>>, <<2674, 2676>>, <<2693, 2701>>,
     <<2703, 2705>>, <<2707, 2728>>, <<2730, 2736>>, <<2738, 2739>>,
     <<2741, 2745>>, <<2749, 2749>>, <<2768, 2768>>, <<2784, 2785>>,
     <<2790, 2799>>, <<2809, 2809>>, <<2821, 2828>>, <<2831, 2832>>,
     <<2835, 2856>>, <<2858, 2864>>, <<2866, 2867>>, <<2869, 2873>>,
     <<2877, 2877>>, <<2908, 2909>>, <<2911, 2913>>, <<2918, 2927>>,
     <<2929, 2935>>, <<2947, 2947>>, <<2949, 2954>>, <<2958, 2960>>,
     <<2962, 2965>>, <<2969, 2970>>, <<2972, 2972>>, <<2974, 2975>>,
     <<2979, 2980>>, <<2984, 2986>>, <<2990, 3001>>, <<3024, 3024>>,
     <<3046, 3058>>, <<3077, 3084>>, <<3086, 3088>>, <<3090, 3112>>,
     <<3114, 3129>>, <<3133, 3133>>, <<3160, 3162>>, <<3165, 3165>>,
     <<3168, 3169>>, <<3174, 3183>>, <<3192, 3198>>, <<3200, 3200>>,
     <<3205, 3212>>, <<3214, 3216>>, <<3218, 3240>>, <<3242, 3251>>,
     <<3253, 3257>>, <<3261, 3261>>, <<3293, 3294>>, <<3296, 3297>>,
     <<3302, 3311>>, <<3313, 3314>>, <<3332, 3340>>, <<3342, 3344>>,
     <<3346, 3386>>, <<3389, 3389>>, <<3406, 3406>>, <<3412, 3414>>,
     <<3416, 3425>>, <<3430, 3448>>, <<3450, 3455>>, <<3461, 3478>>,
     <<3482, 3505>>, <<3507, 3515>>, <<3517, 3517>>, <<3520, 3526>>,
     <<3558, 3567>>, <<3585, 3632>>, <<3634, 3635>>, <<3648, 3654>>,
     <<3664, 3673>>, <<3713, 3714>>, <<3716, 3716>>, <<3718, 3722>>,
     <<3724, 3747>>, <<3749, 3749>>, <<3751, 3760>>, <<3762, 3763>>,
     <<3773, 3773>>, <<3776, 3780>>, <<3782, 3782>>, <<3792, 3801>>,
     <<3804, 3807>>, <<3840, 3840>>, <<3872, 3891>>, <<3904, 3911>>,
     <<3913, 3948>>, <<3976, 3980>>, <<4096, 4138>>, <<4159, 4169>>,
     <<4176, 4181>>, <<4186, 4189>>, <<4193, 4193>>, <<4197, 4198>>,
     <<4206, 4208>>, <<4213, 4225>>, <<4238, 4238>>, <<4240, 4249>>,
     <<4256, 4293>>, <<4295, 4295>>, <<4301, 4301>>, <<4304, 4346>>,
     <<4348, 4680>>, <<4682, 4685>>, <<4688, 4694>>, <<4696, 4696>>,
     <<4698, 4701>>, <<4704, 4744>>, <<4746, 4749>>, <<4752, 4784>>,
     <<4786, 4789>>, <<4792, 4798>>, <<4800, 4800>>, <<4802, 4805>>,
     <<4808, 4822>>, <<4824, 4880>>, <<4882, 4885>>, <<4888, 4954>>,
     <<4969, 4988>>, <<4992, 5007>>, <<5024, 5109>>, <<5112, 5117>>,
     <<5121, 5740>>, <<5743, 5759>>, <<5761, 5786>>, <<5792, 5866>>,
     <<5870, 5880>>, <<5888, 5905>>, <<5919, 5937>>, <<5952, 5969>>,
     <<5984, 5996>>, <<5998, 6000>>, <<6016, 6067>>, <<6103, 6103>>,
     <<6108, 6108>>, <<6112, 6121>>, <<6128, 6137>>, <<6160, 6169>>,
     <<6176, 6264>>, <<6272, 6276>>, <<6279, 6312>>, <<6314, 6314>>,
     <<6320, 6389>>, <<6400, 6430>>, <<6470, 6509>>, <<6512, 6516>>,
     <<6528, 6571>>, <<6576, 6601>>, <<6608, 6618>>, <<6656, 6678>>,
     <<6688, 6740>>, <<6784, 6793>>, <<6800, 6809>>, <<6823, 6823>>,
     <<6917, 6963>>, <<6981, 6988>>, <<6992, 7001>>, <<7043, 7072>>,
     <<7086, 7141>>, <<7168, 7203>>, <<7232, 7241>>, <<7245, 7293>>,
     <<7296, 7304>>, <<7312, 7354>>, <<7357, 7359>>, <<7401, 7404>>,
     <<7406, 7411>>, <<7413, 7414>>, <<7418, 7418>>, <<7424, 7615>>,
     <<7680, 7957>>, <<7960, 7965>>, <<7968, 8005>>, <<8008, 8013>>,
     <<8016, 8023>>, <<8025, 8025>>, <<8027, 8027>>, <<8029, 8029>>,
     <<8031, 8061>>, <<8064, 8116>>, <<8118, 8124>>, <<8126, 8126>>,
     <<8130, 8132>>, <<8134, 8140>>, <<8144, 8147>>, <<8150, 8155>>,
     <<8160, 8172>>, <<8178, 8180>>, <<8182, 8188>>, <<8304, 8305>>,
     <<8308, 8313>>, <<8319, 8329>>, <<8336, 8348>>, <<8450, 8450>>,
     <<8455, 8455>>, <<8458, 8467>>, <<8469, 8469>>, <<8473, 8477>>,
     <<8484, 8484>>, <<8486, 8486>>, <<8488, 8488>>, <<8490, 8493>>,
     <<8495, 8505>>, <<8508, 8511>>, <<8517, 8521>>, <<8526, 8526>>,
     <<8528, 8585>>, <<9312, 9371>>, <<9450, 9471>>, <<10102, 10131>>,
     <<11264, 11492>>, <<11499, 11502>>, <<11506, 11507>>, <<11517, 11517>>,
     <<11520, 11557>>, <<11559, 11559>>, <<11565, 11565>>, <<11568, 11623>>,
     <<11631, 11631>>, <<11648, 11670>>, <<11680, 11686>>, <<11688, 11694>>,
     <<11696, 11702>>, <<11704, 11710>>, <<11712, 11718>>, <<11720, 11726>>,
     <<11728, 11734>>, <<11736, 11742>>, <<11823, 11823>>, <<12293, 12295>>,
     <<12321, 12329>>, <<12337, 12341>>, <<12344, 12348>>, <<12353, 12438>>,
     <<12445, 12447>>, <<12449, 12538>>, <<12540, 12543>>, <<12549, 12591>>,
     <<12593, 12686>>, <<12690, 12693>>, <<12704, 12735>>, <<12784, 12799>>,
     <<12832, 12841>>, <<12872, 12879>>, <<12881, 12895>>, <<12928, 12937>>,
     <<12977, 12991>>, <<13312, 19903>>, <<19968, 42124>>, <<42192, 42237>>,
     <<42240, 42508>>, <<42512, 42539>>, <<42560, 42606>>, <<42623, 42653>>,
     <<42656, 42735>>, <<42775, 42783>>, <<42786, 42888>>, <<42891, 42954>>,
     <<42960, 42961>>, <<42963, 42963>>, <<42965, 42969>>, <<42994, 43009>>,
     <<43011, 43013>>, <<43015, 43018>>, <<43020, 43042>>, <<43056, 43061>>,
     <<43072, 43123>>, <<43138, 43187>>, <<43216, 43225>>, <<43250, 43255>>,
     <<43259, 43259>>, <<43261, 43262>>, <<43264, 43301>>, <<43312, 43334>>,
     <<43360, 43388>>, <<43396, 43442>>, <<43471, 43481>>, <<43488, 43492>>,
     <<43494, 43518>>, <<43520, 43560>>, <<43584, 43586>>, <<43588, 43595>>,
     <<43600, 43609>>, <<43616, 43638>>, <<43642, 43642>>, <<43646, 43695>>,
     <<43697, 43697>>, <<43701, 43702>>, <<43705, 43709>>, <<43712, 43712>>,
     <<43714, 43714>>, <<43739, 43741>>, <<43744, 43754>>, <<43762, 43764>>,
     <<43777, 43782>>, <<43785, 43790>>, <<43793, 43798>>, <<43808, 43814>>,
     <<43816, 43822>>, <<43824, 43866>>, <<43868, 43881>>, <<43888, 44002>>,
     <<44016, 44025>>, <<44032, 55203>>, <<55216, 55238>>, <<55243, 55291>>,
     <<63744, 64109>>, <<64112, 64217>>, <<64256, 64262>>, <<64275, 64279>>,
     <<64285, 64285>>, <<64287, 64296>>, <<64298, 64310>>, <<64312, 64316>>,
     <<64318, 64318>>, <<64320, 64321>>, <<64323, 64324>>, <<64326, 64433>>,
     <<64467, 64829>>, <<64848, 64911>>, <<64914, 64967>>, <<65008, 65019>>,
     <<65136, 65140>>, <<65142, 65276>>, <<65296, 65305>>, <<65313, 65338>>,
     <<65345, 65370>>, <<65382, 65470>>, <<65474, 65479>>, <<65482, 65487>>,
     <<65490, 65495>>, <<65498, 65500>>, <<65536, 65547>>, <<65549, 65574>>,
     <<65576, 65594>>, <<65596, 65597>>, <<65599, 65613>>, <<65616, 65629>>,
     <<65664, 65786>>, <<65799, 65843>>, <<65856, 65912>>, <<65930, 65931>>,
     <<66176, 66204>>, <<66208, 66256>>, <<66273, 66299>>, <<66304, 66339>>,
     <<66349, 66378>>, <<66384, 66421>>, <<66432, 66461>>, <<66464, 66499>>,
     <<66504, 66511>>, <<66513, 66517>>, <<66560, 66717>>, <<66720, 66729>>,
     <<66736, 66771>>, <<66776, 66811>>, <<66816, 66855>>, <<66864, 66915>>,
     <<66928, 66938>>, <<66940, 66954>>, <<66956, 66962>>, <<66964, 66965>>,
     <<66967, 66977>>, <<66979, 66993>>, <<66995, 67001>>, <<67003, 67004>>,
     <<67072, 67382>>, <<67392, 67413>>, <<67424, 67431>>, <<67456, 67461>>,
     <<67463, 67504>>, <<67506, 67514>>, <<67584, 67589>>, <<67592, 67592>>,
     <<67594, 67637>>, <<67639, 67640>>, <<67644, 67644>>, <<67647, 67669>>,
     <<67672, 67702>>, <<67705, 67742>>, <<67751, 67759>>, <<67808, 67826>>,
     <<67828, 67829>>, <<67835, 67867>>, <<67872, 67897>>, <<67968, 68023>>,
     <<68028, 68047>>, <<68050, 68096>>, <<68112, 68115>>, <<68117, 68119>>,
     <<68121, 68149>>, <<68160, 68168>>, <<68192, 68222>>, <<68224, 68255>>,
     <<68288, 68295>>, <<68297, 68324>>, <<68331, 68335>>, <<68352, 68405>>,
     <<68416, 68437>>, <<68440, 68466>>, <<68472, 68497>>, <<68521, 68527>>,
     <<68608, 68680>>, <<68736, 68786>>, <<68800, 68850>>, <<68858, 68899>>,
     <<68912, 68921>>, <<69216, 69246>>, <<69248, 69289>>, <<69296, 69297>>,
     <<69376, 69415>>, <<69424, 69445>>, <<69457, 69460>>, <<69488, 69505>>,
     <<69552, 69579>>, <<69600, 69622>>, <<69635, 69687>>, <<69714, 69743>>,
     <<69745, 69746>>, <<69749, 69749>>, <<69763, 69807>>, <<69840, 69864>>,
     <<69872, 69881>>, <<69891, 69926>>, <<69942, 69951>>, <<69956, 69956>>,
     <<69959, 69959>>, <<69968, 70002>>, <<70006, 70006>>, <<70019, 70066>>,
     <<70081, 70084>>, <<70096, 70106>>, <<70108, 70108>>, <<70113, 70132>>,
     <<70144, 70161>>, <<70163, 70187>>, <<70272, 70278>>, <<70280, 70280>>,
     <<70282, 70285>>, <<70287, 70301>>, <<70303, 70312>>, <<70320, 70366>>,
     <<70384, 70393>>, <<70405, 70412>>, <<70415, 70416>>, <<70419, 70440>>,
     <<70442, 70448>>, <<70450, 70451>>, <<70453, 70457>>, <<70461, 70461>>,
     <<70480, 70480>>, <<70493, 70497>>, <<70656, 70708>>, <<70727, 70730>>,
     <<70736, 70745>>, <<70751, 70753>>, <<70784, 70831>>, <<70852, 70853>>,
     <<70855, 70855>>, <<70864, 70873>>, <<71040, 71086>>, <<71128, 71131>>,
     <<71168, 71215>>, <<71236, 71236>>, <<71248, 71257>>, <<71296, 71338>>,
     <<71352, 71352>>, <<71360, 71369>>, <<71424, 71450>>, <<71472, 71483>>,
     <<71488, 71494>>, <<71680, 71723>>, <<71840, 71922>>, <<71935, 71942>>,
     <<71945, 71945>>, <<71948, 71955>>, <<71957, 71958>>, <<71960, 71983>>,
     <<71999, 71999>>, <<72001, 72001>>, <<72016, 72025>>, <<72096, 72103>>,
     <<72106, 72144>>, <<72161, 72161>>, <<72163, 72163>>, <<72192, 72192>>,
     <<72203, 72242>>, <<72250, 72250>>, <<72272, 72272>>, <<72284, 72329>>,
     <<72349, 72349>>, <<72368, 72440>>, <<72704, 72712>>, <<72714, 72750>>,
     <<72768, 72768>>, <<72784, 72812>>, <<72818, 72847>>, <<72960, 72966>>,
     <<72968, 72969>>, <<72971, 73008>>, <<73030, 73030>>, <<73040, 73049>>,
     <<73056, 73061>>, <<73063, 73064>>, <<73066, 73097>>, <<73112, 73112>>,
     <<73120, 73129>>, <<73440, 73458>>, <<73648, 73648>>, <<73664, 73684>>,
     <<73728, 74649>>, <<74752, 74862>>, <<74880, 75075>>, <<77712, 77808>>,
     <<77824, 78894>>, <<82944, 83526>>, <<92160, 92728>>, <<92736, 92766>>,
     <<92768, 92777>>, <<92784, 92862>>, <<92864, 92873>>, <<92880, 92909>>,
     <<92928, 92975>>, <<92992, 92995>>, <<93008, 93017>>, <<93019, 93025>>,
     <<93027, 93047>>, <<93053, 93071>>, <<93760, 93846>>, <<93952, 94026>>,
     <<94032, 94032>>, <<94099, 94111>>, <<94176, 94177>>, <<94179, 94179>>,
     <<94208, 100343>>, <<100352, 101589>>, <<101632, 101640>>,
     <<110576, 110579>>, <<110581, 110587>>, <<110589, 110590>>,
     <<110592, 110882>>, <<110928, 110930>>, <<110948, 110951>>,
     <<110960, 111355>>, <<113664, 113770>>, <<113776, 113788>>,
     <<113792, 113800>>, <<113808, 113817>>, <<119520, 119539>>,
     <<119648, 119672>>, <<119808, 119892>>, <<119894, 119964>>,
     <<119966, 119967>>, <<119970, 119970>>, <<119973, 119974>>,
     <<119977, 119980>>, <<119982, 119993>>, <<119995, 119995>>,
     <<119997, 120003>>, <<120005, 120069>>, <<120071, 120074>>,
     <<120077, 120084>>, <<120086, 120092>>, <<120094, 120121>>,
     <<120123, 120126>>, <<120128, 120132>>, <<120134, 120134>>,
     <<120138, 120144>>, <<120146, 120485>>, <<120488, 120512>>,
     <<120514, 120538>>, <<120540, 120570>>, <<120572, 120596>>,
     <<120598, 120628>>, <<120630, 120654>>, <<120656, 120686>>,
     <<120688, 120712>>, <<120714, 120744>>, <<120746, 120770>>,
     <<120772, 120779>>, <<120782, 120831>>, <<122624, 122654>>,
     <<123136, 123180>>, <<123191, 123197>>, <<123200, 123209>>,
     <<123214, 123214>>, <<123536, 123565>>, <<123584, 123627>>,
     <<123632, 123641>>, <<124896, 124902>>, <<124904, 124907>>,
     <<124909, 124910>>, <<124912, 124926>>, <<124928, 125124>>,
     <<125127, 125135>>, <<125184, 125251>>, <<125259, 125259>>,
     <<125264, 125273>>, <<126065, 126123>>, <<126125, 126127>>,
     <<126129, 126132>>, <<126209, 126253>>, <<126255, 126269>>,
     <<126464, 126467>>, <<126469, 126495>>, <<126497, 126498>>,
     <<126500, 126500>>, <<126503, 126503>>, <<126505, 126514>>,
     <<126516, 126519>>, <<126521, 126521>>, <<126523, 126523>>,
     <<126530, 126530>>, <<126535, 126535>>, <<126537, 126537>>,
     <<126539, 126539>>, <<126541, 126543>>, <<126545, 126546>>,
     <<126548, 126548>>, <<126551, 126551>>, <<126553, 126553>>,
     <<126555, 126555>>, <<126557, 126557>>, <<126559, 126559>>,
     <<126561, 126562>>, <<126564, 126564>>, <<126567, 126570>>,
     <<126572, 126578>>, <<126580, 126583>>, <<126585, 126588>>,
     <<126590, 126590>>, <<126592, 126601>>, <<126603, 126619>>,
     <<126625, 126627>>, <<126629, 126633>>, <<126635, 126651>>,
     <<127232, 127244>>, <<130032, 130041>>, <<131072, 173791>>,
     <<173824, 177976>>, <<177984, 178205>>, <<178208, 183969>>,
     <<183984, 191456>>, <<194560, 195101>>, <<196608, 201546>>}

(* str.isalnum for one character *)
IsAlnum(c) ==
    IF c < 2048
    THEN \/ c \in 48..57 \/ c \in 65..90 \/ c \in 97..122 \/ c \in 178..179
         \/ c \in 185..186 \/ c \in 188..190 \/ c \in 192..214
         \/ c \in 216..246 \/ c \in 248..705 \/ c \in 710..721
         \/ c \in 736..740 \/ c \in 880..884 \/ c \in 886..887
         \/ c \in 890..893 \/ c \in 904..906 \/ c \in 910..929
         \/ c \in 931..1013 \/ c \in 1015..1153 \/ c \in 1162..1327
         \/ c \in 1329..1366 \/ c \in 1376..1416 \/ c \in 1488..1514
         \/ c \in 1519..1522 \/ c \in 1568..1610 \/ c \in 1632..1641
         \/ c \in 1646..1647 \/ c \in 1649..1747 \/ c \in 1765..1766
         \/ c \in 1774..1788 \/ c \in 1810..1839 \/ c \in 1869..1957
         \/ c \in 1984..2026 \/ c \in 2036..2037
         \/ c \in {170, 181, 748, 750, 895, 902, 908, 1369, 1749, 1791, 1808,
                   1969, 2042}
    ELSE InRanges(c, AlnumRanges)

(* the ranges <<first, last>> of the code points from U+0800 on for which   *)
(* str.isdigit holds                                                       *)
DigitRanges ==
    {<<2406, 2415>>, <<2534, 2543>>, <<2662, 2671>>, <<2790, 2799>>,
     <<2918, 2927>>, <<3046, 3055>>, <<3174, 3183>>, <<3302, 3311>>,
     <<3430, 3439>>, <<3558, 3567>>, <<3664, 3673>>, <<3792, 3801>>,
     <<3872, 3881>>, <<4160, 4169>>, <<4240, 4249>>, <<4969, 4977>>,
     <<6112, 6121>>, <<6160, 6169>>, <<6470, 6479>>, <<6608, 6618>>,
     <<6784, 6793>>, <<6800, 6809>>, <<6992, 7001>>, <<7088, 7097>>,
     <<7232, 7241>>, <<7248, 7257>>, <<8304, 8304>>, <<8308, 8313>>,
     <<8320, 8329>>, <<9312, 9320>>, <<9332, 9340>>, <<9352, 9360>>,
     <<9450, 9450>>, <<9461, 9469>>, <<9471, 9471>>, <<10102, 10110>>,
     <<10112, 10120>>, <<10122, 10130>>, <<42528, 42537>>, <<43216, 43225>>,
     <<43264, 43273>>, <<43472, 43481>>, <<43504, 43513>>, <<43600, 43609>>,
     <<44016, 44025>>, <<65296, 65305>>, <<66720, 66729>>, <<68160, 68163>>,
     <<68912, 68921>>, <<69216, 69224>>, <<69714, 69722>>, <<69734, 69743>>,
     <<69872, 69881>>, <<69942, 69951>>, <<70096, 70105>>, <<70384, 70393>>,
     <<70736, 70745>>, <<70864, 70873>>, <<71248, 71257>>, <<71360, 71369>>,
     <<71472, 71481>>, <<71904, 71913>>, <<72016, 72025>>, <<72784, 72793>>,
     <<73040, 73049>>, <<73120, 73129>>, <<92768, 92777>>, <<92864, 92873>>,
     <<93008, 93017>>, <<120782, 120831>>, <<123200, 123209>>,
     <<123632, 123641>>, <<125264, 125273>>, <<127232, 127242>>,
     <<130032, 130041>>}

(* str.isdigit for one character *)
IsDigit(c) ==
    IF c < 2048
    THEN \/ c \in 48..57 \/ c \in 178..179 \/ c \in 1632..1641
         \/ c \in 1776..1785 \/ c \in 1984..1993 \/ c \in {185}
    ELSE InRanges(c, DigitRanges)

(* str.isspace for one character: what str.strip() and str.split() remove *)
IsSpace(c) ==
    \/ c \in 9..13 \/ c \in 28..32 \/ c \in {133, 160}
    \/ c \in {5760, 8232, 8233, 8239, 8287, 12288} \/ c \in 8192..8202

(* the characters of the literal '/\\-_@.' *)
PathChars == {47, 92, 45, 95, 64, 46}

(* s.lstrip(chars), s.rstrip(chars), s.strip(chars): chars given as a set *)
LStripSet(s, S) ==
    LET keep == {i \in 1..Len(s) : s[i] \notin S}
    IN  IF keep = {} THEN <<>>
        ELSE SubSeq(s, CHOOSE i \in keep : \A j \in keep : i <= j, Len(s))

RStripSet(s, S) ==
    LET keep == {i \in 1..Len(s) : s[i] \notin S}
    IN  IF keep = {} THEN <<>>
        ELSE SubSeq(s, 1, CHOOSE i \in keep : \A j \in keep : i >= j)

StripSet(s, S) == RStripSet(LStripSet(s, S), S)

(* s.strip() *)
Strip(s) ==
    LET keep == {i \in 1..Len(s) : ~IsSpace(s[i])}
    IN  IF keep = {} THEN <<>>
        ELSE SubSeq(s, CHOOSE i \in keep : \A j \in keep : i <= j,
                       CHOOSE i \in keep : \A j \in keep : i >= j)

(* s.strip('\x00') *)
StripNul(s) == StripSet(s, {0})

(* len(s.split()): number of maximal runs of non-whitespace characters *)
WordCount(s) ==
    Cardinality({i \in 1..Len(s) :
                    /\ ~IsSpace(s[i])
                    /\ (i = 1 \/ IsSpace(s[i - 1]))})

(* s.split(sep)[-1]: the part after the last occurrence of sep *)
RECURSIVE SplitLast(_, _)
SplitLast(s, sep) ==
    LET i == Find(s, sep)
    IN  IF i < 0 THEN s ELSE SplitLast(SliceFrom(s, i + Len(sep)), sep)

(* s.split(sep): the list of parts *)
RECURSIVE Split(_, _)
Split(s, sep) ==
    LET i == Find(s, sep)
    IN  IF i < 0 THEN <<s>>
        ELSE <<Slice(s, 0, i)>> \o Split(SliceFrom(s, i + Len(sep)), sep)

(* sep.join(parts) *)
RECURSIVE Join(_, _)
Join(parts, sep) ==
    IF parts = <<>> THEN <<>>
    ELSE IF Len(parts) = 1 THEN parts[1]
    ELSE parts[1] \o sep \o Join(Tail(parts), sep)

(***************************************************************************)
(* bytes.decode('utf-8', errors=...)                                       *)
(* Every maximal ill-formed subsequence yields one U+FFFD under 'replace'  *)
(* and nothing under 'ignore'.                                             *)
(***************************************************************************)
IsCont(b) == b \in 128..191

(* <<number of bytes consumed, code point or -1 when ill-formed>> at index i *)
Utf8Step(d, i) ==
    LET n  == Len(d)
        b0 == At(d, i)
        has(k) == i + k < n
        b(k) == At(d, i + k)
        lo2 == IF b0 = 224 THEN 160 ELSE IF b0 = 240 THEN 144 ELSE 128
        hi2 == IF b0 = 237 THEN 159 ELSE IF b0 = 244 THEN 143 ELSE 191
    IN  IF b0 < 128 THEN <<1, b0>>
        ELSE IF b0 \in 194..223 THEN
            IF has(1) /\ IsCont(b(1))
            THEN <<2, (b0 - 192) * 64 + (b(1) - 128)>>
            ELSE <<1, -1>>
        ELSE IF b0 \in 224..239 THEN
            IF ~(has(1) /\ b(1) \in lo2..hi2) THEN <<1, -1>>
            ELSE IF ~(has(2) /\ IsCont(b(2))) THEN <<2, -1>>
            ELSE <<3, (b0 - 224) * 4096 + (b(1) - 128) * 64 + (b(2) - 128)>>
        ELSE IF b0 \in 240..244 THEN
            IF ~(has(1) /\ b(1) \in lo2..hi2) THEN <<1, -1>>
            ELSE IF ~(has(2) /\ IsCont(b(2))) THEN <<2, -1>>
            ELSE IF ~(has(3) /\ IsCont(b(3))) THEN <<3, -1>>
            ELSE <<4, (b0 - 240) * 262144 + (b(1) - 128) * 4096
                        + (b(2) - 128) * 64 + (b(3) - 128)>>
        ELSE <<1, -1>>

(* decodes the characters that start at offsets i..bound-1, the range      *)
(* halved at each level: <<characters, offset after the last one>>         *)
RECURSIVE Utf8Range(_, _, _, _)
Utf8Range(d, i, bound, replace) ==
    IF i >= bound THEN <<<<>>, i>>
    ELSE IF bound - i = 1 THEN
        LET st == Utf8Step(d, i)
        IN  <<IF st[2] >= 0 THEN <<st[2]>>
              ELSE IF replace THEN <<REPLACEMENT>> ELSE <<>>,
              i + st[1]>>
    ELSE LET mid == (i + bound) \div 2
             L == Utf8Range(d, i, mid, replace)
             R == Utf8Range(d, L[2], bound, replace)
         IN  <<L[1] \o R[1], R[2]>>

(* d.decode('utf-8', errors='replace') and d.decode('utf-8', errors='ignore') *)
decode_replace(d) == Utf8Range(d, 0, Len(d), TRUE)[1]
decode_ignore(d) == Utf8Range(d, 0, Len(d), FALSE)[1]

(***************************************************************************)
(* base64.b64decode(s) with validate=False, as binascii.a2b_base64 does    *)
(* it: characters outside the alphabet are skipped, a pad sequence that    *)
(* completes a quad ends the parse, an incomplete quad is an error.        *)
(***************************************************************************)
Failed == [ok |-> FALSE]
Ok(v) == [ok |-> TRUE, val |-> v]

(* value of a base64 alphabet character, 64 for any other character *)
B64Value(c) ==
    IF c \in 65..90 THEN c - 65
    ELSE IF c \in 97..122 THEN c - 97 + 26
    ELSE IF c \in 48..57 THEN c - 48 + 52
    ELSE IF c = 43 THEN 62
    ELSE IF c = 47 THEN 63
    ELSE 64

B64Char(v) ==
    IF v < 26 THEN v + 65
    ELSE IF v < 52 THEN v - 26 + 97
    ELSE IF v < 62 THEN v - 52 + 48
    ELSE IF v = 62 THEN 43 ELSE 47

(* binascii.a2b_base64: with quad = (alphabet characters read) mod 4, the  *)
(* parse stops at the first '=' read with quad >= 2 that brings the count  *)
(* of pads since the last alphabet character to 4 - quad; otherwise it     *)
(* reads to the end, where quad # 0 is an error.                           *)
a2b_base64(s) ==
    LET alpha == {i \in 1..Len(s) : B64Value(s[i]) < 64}
        quadAt(i) == Cardinality({j \in alpha : j < i}) % 4
        padsAt(i) ==
            Cardinality({j \in 1..i : s[j] = 61
                            /\ \A k \in alpha : ~(j < k /\ k < i)})
        stops == {i \in 1..Len(s) :
                    s[i] = 61 /\ quadAt(i) >= 2 /\ quadAt(i) + padsAt(i) >= 4}
        stop == IF stops = {} THEN Len(s) + 1
                ELSE CHOOSE i \in stops : \A j \in stops : i <= j
        vals == SelectSeq(SubSeq(s, 1, stop - 1), LAMBDA c : B64Value(c) < 64)
        v(k) == B64Value(vals[k + 1])
        m == Len(vals)
        n == 3 * (m \div 4) + (IF m % 4 = 2 THEN 1 ELSE IF m % 4 = 3 THEN 2 ELSE 0)
        byte(j) ==
            LET q == 4 * (j \div 3)
            IN  IF j % 3 = 0 THEN v(q) * 4 + (v(q + 1) \div 16)
                ELSE IF j % 3 = 1 THEN (v(q + 1) % 16) * 16 + (v(q + 2) \div 4)
                ELSE (v(q + 2) % 4) * 64 + v(q + 3)
    IN  IF stops = {} /\ m % 4 # 0 THEN Failed
        ELSE Ok([j \in 1..n |-> byte(j - 1)])

(* a str argument is first encoded as ASCII; a non-ASCII character raises *)
b64decode(s) ==
    IF \E i \in 1..Len(s) : s[i] > 127 THEN Failed
    ELSE a2b_base64(s)

(* base64.b64encode(d) *)
b64encode(d) ==
    LET n == Len(d)
        byte(k) == IF k < n THEN At(d, k) ELSE 0
        char(j) ==
            LET q == 3 * (j \div 4)
            IN  IF j % 4 = 0 THEN B64Char(byte(q) \div 4)
                ELSE IF j % 4 = 1
                    THEN B64Char((byte(q) % 4) * 16 + (byte(q + 1) \div 16))
                ELSE IF j % 4 = 2 THEN
                    (IF q + 1 >= n THEN 61
                     ELSE B64Char((byte(q + 1) % 16) * 4 + (byte(q + 2) \div 64)))
                ELSE (IF q + 2 >= n THEN 61 ELSE B64Char(byte(q + 2) % 64))
    IN  [j \in 1..(4 * ((n + 2) \div 3)) |-> char(j - 1)]

(***************************************************************************)
(* gzip.decompress(data) and a gzip encoder.  The deflate stream is       *)
(* inflated as zlib inflates it (stored, fixed-Huffman and dynamic-Huffman *)
(* blocks); the container is checked as the library checks it: magic,      *)
(* method, header fields, CRC-32, ISIZE, and further members after the     *)
(* trailer.  The encoder writes one stored block.                          *)
(***************************************************************************)
RECURSIVE CrcBits(_, _)
CrcBits(c, k) ==
    IF k = 0 THEN c
    ELSE Strict(IF c[2] % 2 = 1 THEN U32Xor(<<60856, 33568>>, U32Shr1(c))
                ELSE U32Shr1(c),
                LAMBDA v : CrcBits(v, k - 1))

(* the CRC-32 table of polynomial 0xEDB88320 *)
Crc32Table == [n \in 0..255 |-> CrcBits(<<0, n>>, 8)]

(* the register after bytes d[lo..hi], the range halved at each level *)
RECURSIVE Crc32Run(_, _, _, _)
Crc32Run(d, lo, hi, c) ==
    IF lo > hi THEN c
    ELSE IF lo = hi
        THEN U32Xor(Crc32Table[Xor(c[2] % 256, d[lo])], U32Shr8(c))
    ELSE LET mid == (lo + hi) \div 2
         IN  Strict(Crc32Run(d, lo, mid, c),
                    LAMBDA v : Crc32Run(d, mid + 1, hi, v))

(* zlib.crc32(d) *)
crc32(d) == U32Xor(Crc32Run(d, 1, Len(d), <<65535, 65535>>), <<65535, 65535>>)

GzipHeader == <<31, 139, 8, 0, 0, 0, 0, 0, 0, 255>>

(* one gzip member holding d in a single final stored block *)
gzip_compress(d) ==
    GzipHeader
    \o <<1, Len(d) % 256, Len(d) \div 256,
         255 - (Len(d) % 256), 255 - (Len(d) \div 256)>>
    \o d \o pack_I(crc32(d)) \o pack_I(U32(Len(d)))

(***************************************************************************)
(* zlib.decompressobj(wbits=-15): inflate of a raw deflate stream          *)
(* (RFC 1951).  A position is a 0-based bit offset into the input; the     *)
(* bits of a byte are read from the least significant one.  Where the      *)
(* library raises zlib.error or stops short of the end of the stream, the  *)
(* result is Failed.                                                       *)
(***************************************************************************)
NBits(data) == 8 * Len(data)

(* the least k with 2^k >= n, for n < 2^30 *)
Log2Ceil(n) == CHOOSE k \in 0..30 : 2 ^ k >= n /\ \A j \in 0..(k - 1) : 2 ^ j < n

(* the n <= 13 bits at bit offset p as a number, first bit lowest *)
Bits(data, p, n) ==
    LET byte(k) == IF (p \div 8) + k < Len(data)
                   THEN At(data, (p \div 8) + k) ELSE 0
    IN  ((byte(0) + 256 * byte(1) + 65536 * byte(2)) \div (2 ^ (p % 8)))
        % (2 ^ n)

(* a Huffman code given by the code length of each symbol 0..n-1 (0 for a  *)
(* symbol without code): for each length 1..15 its symbols in increasing   *)
(* order, which is the order of their canonical codes                      *)
Huffman(lengths) ==
    [len \in 1..15 |->
        SelectSeq([k \in 1..Len(lengths) |-> k - 1],
                  LAMBDA symbol : lengths[symbol + 1] = len)]

(* the code space left unused by the code h, in units of 2^-15: 0 for a    *)
(* complete code and for one without any symbol, negative for an           *)
(* over-subscribed one                                                     *)
HuffmanLeft(h) ==
    IF \A len \in 1..15 : h[len] = <<>> THEN 0
    ELSE 32768
         - (Len(h[1]) * 16384 + Len(h[2]) * 8192 + Len(h[3]) * 4096
            + Len(h[4]) * 2048 + Len(h[5]) * 1024 + Len(h[6]) * 512
            + Len(h[7]) * 256 + Len(h[8]) * 128 + Len(h[9]) * 64
            + Len(h[10]) * 32 + Len(h[11]) * 16 + Len(h[12]) * 8
            + Len(h[13]) * 4 + Len(h[14]) * 2 + Len(h[15]))

(* a literal/length or distance code may be incomplete only when it has a  *)
(* single code, of length 1                                                *)
HuffmanUsable(h) ==
    \/ HuffmanLeft(h) = 0
    \/ HuffmanLeft(h) > 0 /\ \A len \in 2..15 : h[len] = <<>>

(* the symbol whose code starts at bit offset p: <<symbol, offset after    *)
(* the code>>, or <<-1, p>> when the bits are no code of h or the input    *)
(* ends within the code                                                    *)
RECURSIVE HuffmanDecode(_, _, _, _, _, _)
HuffmanDecode(data, p, h, len, code, first) ==
    IF len > 15 \/ p >= NBits(data) THEN <<-1, p>>
    ELSE With(code + Bits(data, p, 1), LAMBDA c :
         With(Len(h[len]), LAMBDA count :
            IF c - count < first THEN <<h[len][c - first + 1], p + 1>>
            ELSE HuffmanDecode(data, p + 1, h, len + 1, 2 * c,
                               2 * (first + count))))

(* base value and number of extra bits of the length symbols 257..285 and  *)
(* of the distance symbols 0..29                                           *)
LengthBase ==
    <<3, 4, 5, 6, 7, 8, 9, 10, 11, 13, 15, 17, 19, 23, 27, 31, 35, 43, 51, 59,
      67, 83, 99, 115, 131, 163, 195, 227, 258>>
LengthExtra ==
    <<0, 0, 0, 0, 0, 0, 0, 0, 1, 1, 1, 1, 2, 2, 2, 2, 3, 3, 3, 3, 4, 4, 4, 4,
      5, 5, 5, 5, 0>>
DistanceBase ==
    <<1, 2, 3, 4, 5, 7, 9, 13, 17, 25, 33, 49, 65, 97, 129, 193, 257, 385, 513,
      769, 1025, 1537, 2049, 3073, 4097, 6145, 8193, 12289, 16385, 24577>>
DistanceExtra ==
    <<0, 0, 0, 0, 1, 1, 2, 2, 3, 3, 4, 4, 5, 5, 6, 6, 7, 7, 8, 8, 9, 9, 10, 10,
      11, 11, 12, 12, 13, 13>>

(* the codes of a fixed-Huffman block; the length symbols 286, 287 and the *)
(* distance symbols 30, 31 have codes that are invalid in a stream         *)
FixedLengthCode ==
    Huffman([k \in 1..288 |-> IF k <= 144 THEN 8 ELSE IF k <= 256 THEN 9
                              ELSE IF k <= 280 THEN 7 ELSE 8])
FixedDistanceCode == Huffman([k \in 1..32 |-> 5])

(* the order in which a dynamic block lists the lengths of the code        *)
(* length code                                                             *)
CodeLengthOrder ==
    <<16, 17, 18, 0, 8, 7, 9, 6, 10, 5, 11, 4, 12, 3, 13, 2, 14, 1, 15>>

(* the state of the inflate: st is "run", "end" (of the block, of the      *)
(* stream, of the lengths) or "fail"                                       *)
InflateFail == [st |-> "fail"]

(* one literal, one length/distance pair or the end-of-block symbol *)
InflateSymbol(data, lencode, distcode, s) ==
    With(HuffmanDecode(data, s.p, lencode, 1, 0, 0), LAMBDA lit :
        IF lit[1] < 0 THEN InflateFail
        ELSE IF lit[1] < 256
            THEN [st |-> "run", p |-> lit[2], out |-> Append(s.out, lit[1])]
        ELSE IF lit[1] = 256 THEN [st |-> "end", p |-> lit[2], out |-> s.out]
        ELSE IF lit[1] > 285 THEN InflateFail
        ELSE With(LengthExtra[lit[1] - 256], LAMBDA lext :
             IF lit[2] + lext > NBits(data) THEN InflateFail
             ELSE
             With(LengthBase[lit[1] - 256] + Bits(data, lit[2], lext),
                  LAMBDA len :
             With(HuffmanDecode(data, lit[2] + lext, distcode, 1, 0, 0),
                  LAMBDA d :
                IF d[1] < 0 \/ d[1] > 29 THEN InflateFail
                ELSE With(DistanceExtra[d[1] + 1], LAMBDA dext :
                     IF d[2] + dext > NBits(data) THEN InflateFail
                     ELSE
                     With(DistanceBase[d[1] + 1] + Bits(data, d[2], dext),
                          LAMBDA dist :
                        IF dist > Len(s.out) THEN InflateFail
                        ELSE [st |-> "run", p |-> d[2] + dext,
                              out |-> s.out \o
                                  [k \in 1..len |->
                                      s.out[Len(s.out) - dist + 1
                                            + ((k - 1) % dist)]]]))))))

(* up to 2^k symbols of a block from state s *)
RECURSIVE InflateSymbols(_, _, _, _, _)
InflateSymbols(data, lencode, distcode, s, k) ==
    IF s.st # "run" THEN s
    ELSE IF k = 0 THEN InflateSymbol(data, lencode, distcode, s)
    ELSE Strict(InflateSymbols(data, lencode, distcode, s, k - 1),
                LAMBDA t : InflateSymbols(data, lencode, distcode, t, k - 1))

(* the symbols of a block up to its end-of-block symbol; a symbol takes at *)
(* least one bit of the input                                              *)
InflateCodes(data, lencode, distcode, p, out) ==
    With(InflateSymbols(data, lencode, distcode,
                        [st |-> "run", p |-> p, out |-> out],
                        Log2Ceil(NBits(data))),
         LAMBDA s : IF s.st = "end" THEN s ELSE InflateFail)

(* a dynamic block: one more code length, or a run of them, read with the  *)
(* code length code h, until total lengths are there                       *)
InflateLength(data, h, total, s) ==
    IF Len(s.lengths) = total THEN [s EXCEPT !.st = "end"]
    ELSE With(HuffmanDecode(data, s.p, h, 1, 0, 0), LAMBDA d :
        IF d[1] < 0 THEN InflateFail
        ELSE IF d[1] < 16
            THEN [st |-> "run", p |-> d[2], lengths |-> Append(s.lengths, d[1])]
        ELSE IF d[1] = 16 /\ s.lengths = <<>> THEN InflateFail
        ELSE With(IF d[1] = 16 THEN 2 ELSE IF d[1] = 17 THEN 3 ELSE 7,
                  LAMBDA n :
             IF d[2] + n > NBits(data) THEN InflateFail
             ELSE With((IF d[1] = 18 THEN 11 ELSE 3) + Bits(data, d[2], n),
                       LAMBDA repeat :
                IF Len(s.lengths) + repeat > total THEN InflateFail
                ELSE [st |-> "run", p |-> d[2] + n,
                      lengths |-> s.lengths \o
                          [k \in 1..repeat |->
                              IF d[1] = 16 THEN s.lengths[Len(s.lengths)]
                              ELSE 0]])))

RECURSIVE InflateLengths(_, _, _, _, _)
InflateLengths(data, h, total, s, k) ==
    IF s.st # "run" THEN s
    ELSE IF k = 0 THEN InflateLength(data, h, total, s)
    ELSE Strict(InflateLengths(data, h, total, s, k - 1),
                LAMBDA t : InflateLengths(data, h, total, t, k - 1))

(* a dynamic block from the bit after its 3 header bits: the counts, the   *)
(* code length code, the two codes, the symbols; at most 316 lengths       *)
InflateDynamic(data, p, out) ==
    IF p + 14 > NBits(data) THEN InflateFail
    ELSE
    With(Bits(data, p, 5) + 257, LAMBDA nlen :
    With(Bits(data, p + 5, 5) + 1, LAMBDA ndist :
    With(Bits(data, p + 10, 4) + 4, LAMBDA ncode :
        IF nlen > 286 \/ ndist > 30 THEN InflateFail
        ELSE IF p + 14 + 3 * ncode > NBits(data) THEN InflateFail
        ELSE
        With(Huffman([k \in 1..19 |->
                 With(First(1, ncode, LAMBDA i : CodeLengthOrder[i] = k - 1),
                      LAMBDA i : IF i < 0 THEN 0
                                 ELSE Bits(data, p + 14 + 3 * (i - 1), 3))]),
             LAMBDA h :
            IF HuffmanLeft(h) # 0 THEN InflateFail
            ELSE
            With(InflateLengths(data, h, nlen + ndist,
                                [st |-> "run", p |-> p + 14 + 3 * ncode,
                                 lengths |-> <<>>], 9),
                 LAMBDA r :
                IF r.st # "end" THEN InflateFail
                ELSE IF r.lengths[257] = 0 THEN InflateFail
                ELSE
                With(Huffman(SubSeq(r.lengths, 1, nlen)), LAMBDA lencode :
                With(Huffman(SubSeq(r.lengths, nlen + 1, nlen + ndist)),
                     LAMBDA distcode :
                    IF ~HuffmanUsable(lencode) \/ ~HuffmanUsable(distcode)
                    THEN InflateFail
                    ELSE InflateCodes(data, lencode, distcode, r.p, out))))))))

(* a stored block from the bit after its 3 header bits: LEN and NLEN at    *)
(* the next byte boundary, then LEN bytes                                  *)
InflateStored(data, p, out) ==
    With((p + 7) \div 8, LAMBDA i :
        IF i + 4 > Len(data) THEN InflateFail
        ELSE With(At(data, i) + 256 * At(data, i + 1), LAMBDA len :
            IF len + At(data, i + 2) + 256 * At(data, i + 3) # 65535
            THEN InflateFail
            ELSE IF i + 4 + len > Len(data) THEN InflateFail
            ELSE [st |-> "end", p |-> 8 * (i + 4 + len),
                  out |-> out \o Slice(data, i + 4, i + 4 + len)]))

(* one block: BFINAL, BTYPE and the block; "end" after the final block *)
InflateBlock(data, s) ==
    IF s.p + 3 > NBits(data) THEN InflateFail
    ELSE With(Bits(data, s.p + 1, 2), LAMBDA type :
         With(IF type = 0 THEN InflateStored(data, s.p + 3, s.out)
              ELSE IF type = 1
                  THEN InflateCodes(data, FixedLengthCode, FixedDistanceCode,
                                    s.p + 3, s.out)
              ELSE IF type = 2 THEN InflateDynamic(data, s.p + 3, s.out)
              ELSE InflateFail,
              LAMBDA r :
                IF r.st = "fail" THEN InflateFail
                ELSE [st |-> IF Bits(data, s.p, 1) = 1 THEN "end" ELSE "run",
                      p |-> r.p, out |-> r.out]))

RECURSIVE InflateBlocks(_, _, _)
InflateBlocks(data, s, k) ==
    IF s.st # "run" THEN s
    ELSE IF k = 0 THEN InflateBlock(data, s)
    ELSE Strict(InflateBlocks(data, s, k - 1),
                LAMBDA t : InflateBlocks(data, t, k - 1))

(* the deflate stream that starts at 0-based byte offset i:                *)
(* Ok(<<payload, offset of the first byte after the stream>>) or Failed;   *)
(* a block takes more than 8 bits of the input                             *)
inflate(data, i) ==
    With(InflateBlocks(data, [st |-> "run", p |-> 8 * i, out |-> <<>>],
                       Log2Ceil(Len(data))),
         LAMBDA s :
            IF s.st = "end" THEN Ok(<<s.out, (s.p + 7) \div 8>>) ELSE Failed)

(* gzip._read_gzip_header after the magic: the 0-based offset where the     *)
(* deflate stream starts, or -1 when the header is cut short or names a    *)
(* method other than deflate; FTEXT and the reserved flag bits are ignored *)
GzipHeaderEnd(data) ==
    IF Len(data) < 10 \/ data[3] # 8 THEN -1
    ELSE LET flag == data[4]
             Has(bit) == (flag \div bit) % 2 = 1
             (* the offset after a zero-terminated field starting at o; a  *)
             (* field running to the end of the input ends there           *)
             ZEnd(o) == LET z == First(o, Len(data) - 1,
                                       LAMBDA j : At(data, j) = 0)
                        IN  IF z < 0 THEN Max(o, Len(data)) ELSE z + 1
             o1 == IF ~Has(4) THEN 10
                   ELSE IF 12 > Len(data) THEN -1
                   ELSE LET n == At(data, 10) + 256 * At(data, 11)
                        IN  IF 12 + n > Len(data) THEN -1 ELSE 12 + n
         IN  With(o1, LAMBDA p1 :
             With(IF p1 < 0 \/ ~Has(8) THEN p1 ELSE ZEnd(p1), LAMBDA o2 :
             With(IF o2 < 0 \/ ~Has(16) THEN o2 ELSE ZEnd(o2), LAMBDA o3 :
                 IF o3 < 0 \/ ~Has(2) THEN o3
                 ELSE IF o3 + 2 > Len(data) THEN -1 ELSE o3 + 2)))

(* gzip.decompress: every member's payload, concatenated *)
RECURSIVE gzip_decompress(_)
gzip_decompress(data) ==
    IF data = <<>> THEN Ok(<<>>)
    ELSE IF Len(data) < 2 \/ ~(data[1] = 31 /\ data[2] = 139) THEN Failed
    ELSE With(GzipHeaderEnd(data), LAMBDA start :
      IF start < 0 THEN Failed
      ELSE With(inflate(data, start), LAMBDA inf :
        IF ~inf.ok THEN Failed
        ELSE With(inf.val[1], LAMBDA payload :
             With(inf.val[2], LAMBDA e :
               IF e + 8 > Len(data) THEN Failed
               ELSE IF unpack_I(Slice(data, e, e + 4)) # crc32(payload)
                   THEN Failed
               ELSE IF unpack_I(Slice(data, e + 4, e + 8)) # U32(Len(payload))
                   THEN Failed
               ELSE With(gzip_decompress(
                             LStripSet(SliceFrom(data, e + 8), {0})),
                         LAMBDA more :
                           IF more.ok THEN Ok(payload \o more.val)
                           ELSE Failed)))))

(***************************************************************************)
(* DecoderService (services/decoder.py)                                    *)
(***************************************************************************)
spaces_ == <<115, 112, 97, 99, 101, 115, 47>>
devices_ == <<100, 101, 118, 105, 99, 101, 115, 47>>
_devices_ == <<47>> \o devices_
devices == <<100, 101, 118, 105, 99, 101, 115>>

MESSAGE_ID_PATTERNS ==
    << <<24, 0, 32, 1, 45, 0>>,
       <<24, 0, 1, 32, 1, 45, 0>>,
       <<24, 0, 45, 0>>,
       <<24, 0, 1, 45, 0>> >>

LANG_ID_PATTERNS == << <<64, 0, 72>>, <<64, 0, 80>> >>

(* the thresholds are those of the float comparisons, which the exact      *)
(* variant: the share of spaces tolerated in a long id is one in five *)
_is_valid_device_id_fifth(device_id) ==
    LET n == Len(device_id)
        printable_count ==
            Cardinality({i \in 1..n : IsPrintable(device_id[i])
                                      \/ device_id[i] \in {47, 92, 45, 95}})
        control_chars ==
            Cardinality({i \in 1..n : device_id[i] < 32
                                      /\ device_id[i] \notin {10, 13, 9}})
        space_count == CountIn(device_id, {32})
    IN  IF n = 0 THEN FALSE
        ELSE IF 10 * printable_count < 7 * n THEN FALSE
        ELSE IF 10 * CountIn(device_id, {REPLACEMENT}) > 3 * n THEN FALSE
        ELSE IF 5 * control_chars > n THEN FALSE
        ELSE IF n > 200 THEN FALSE
        ELSE IF ~(\E i \in 1..n : IsAlnum(device_id[i])
                                   \/ device_id[i] \in PathChars) THEN FALSE
        ELSE IF n > 20 /\ space_count > n \div 5 THEN FALSE
        ELSE IF n > 10 /\ device_id[n] \in {46, 33, 63, 44, 59, 58, 64}
                /\ space_count > 0 THEN FALSE
        ELSE IF WordCount(device_id) > 3 /\ n < 100 THEN FALSE
        ELSE TRUE

(* comparisons below decide identically for every length up to 1000        *)
_is_valid_device_id(device_id) ==
    LET n == Len(device_id)
        printable_count ==
            Cardinality({i \in 1..n : IsPrintable(device_id[i])
                                      \/ device_id[i] \in {47, 92, 45, 95}})
        replacement_char_count == CountIn(device_id, {REPLACEMENT})
        control_chars ==
            Cardinality({i \in 1..n : device_id[i] < 32
                                      /\ device_id[i] \notin {10, 13, 9}})
        has_valid_chars ==
            \E i \in 1..n : IsAlnum(device_id[i]) \/ device_id[i] \in PathChars
        space_count == CountIn(device_id, {32})
        text_endings == {46, 33, 63, 44, 59, 58, 64}
        count(c) == CountIn(device_id, {c})
        most_common_char ==
            CHOOSE c \in SeqToSet(device_id) :
                \A e \in SeqToSet(device_id) : count(c) >= count(e)
        max_char_count == count(most_common_char)
    IN  IF n = 0 THEN FALSE
        ELSE IF 10 * printable_count < 7 * n THEN FALSE
        ELSE IF 10 * replacement_char_count > 3 * n THEN FALSE
        ELSE IF 5 * control_chars > n THEN FALSE
        ELSE IF n > 200 THEN FALSE
        ELSE IF ~has_valid_chars THEN FALSE
        ELSE IF n > 20 /\ space_count > n \div 10 THEN FALSE
        ELSE IF n > 10 /\ device_id[n] \in text_endings /\ space_count > 0 THEN FALSE
        ELSE IF WordCount(device_id) > 3 /\ n < 100 THEN FALSE
        ELSE IF n > 3 /\ 2 * max_char_count > n /\ max_char_count > 3
                /\ most_common_char \notin PathChars THEN FALSE
        ELSE TRUE

(* _find_pattern(data, pattern, start_idx): index of the first match or None *)
_find_pattern(data, pattern, start_idx) ==
    IF Len(pattern) = 0 THEN start_idx
    ELSE LET i == FindFrom(data, pattern, start_idx)
         IN  IF i < 0 THEN NoneInt ELSE i

(* variant: a buffer without start marker is read from its first byte *)
_find_data_start_from_zero(data) ==
    LET i == First(0, Len(data) - 2, LAMBDA k : At(data, k) = 16)
    IN  IF i < 0 THEN 0
        ELSE IF i + 1 < Len(data) /\ At(data, i + 1) = 1 THEN i + 2
        ELSE i + 1

_find_data_start(data) ==
    LET i == First(0, Len(data) - 2, LAMBDA k : At(data, k) = 16)
    IN  IF i < 0 THEN NoneInt
        ELSE IF i + 1 < Len(data) /\ At(data, i + 1) = 1 THEN i + 2
        ELSE i + 1

(* offset after a varint of at most 5 bytes that starts at offset i *)
VarintEnd(data, i) ==
    LET last == First(i, Min(i + 4, Len(data) - 1), LAMBDA k : At(data, k) < 128)
    IN  IF last >= 0 THEN last + 1 ELSE Min(i + 5, Len(data))

(* The strategies of _extract_device_id.  Each yields <<device_id, end>>    *)
(* or None when it falls through to the next one.                          *)

(* what a strategy returned, or else the outcome of those that follow it *)
OrElse(found, rest) == IF found # None THEN found ELSE rest

(* [10, varint length, 10, 31, 31 bytes] at the very start of the data *)
DeviceIdNested(data) ==
    IF ~(Len(data) >= 35 /\ At(data, 0) = 10) THEN None
    ELSE LET nested_msg_start == VarintEnd(data, 1)
             device_len_idx == nested_msg_start + 1
             device_str_start == device_len_idx + 1
             device_str_end == device_str_start + 31
         IN  IF ~(nested_msg_start < Len(data) /\ At(data, nested_msg_start) = 10)
                 THEN None
             ELSE IF ~(device_len_idx < Len(data)) THEN None
             ELSE IF At(data, device_len_idx) # 31 THEN None
             ELSE IF ~(device_str_end <= Len(data)) THEN None
             ELSE With(decode_replace(Slice(data, device_str_start, device_str_end)),
                       LAMBDA device_id :
                      IF device_id # <<>>
                         /\ (Contains(device_id, spaces_) \/ Contains(device_id, _devices_))
                      THEN <<device_id, device_str_end>>
                      ELSE None)

(* variant: approach 1 returns what it read without the validity check *)
DeviceIdByte3_unchecked(data, start_idx) ==
    LET search_limit == Min(start_idx + 100, Len(data))
        hit == First(start_idx, search_limit - 1, LAMBDA k : At(data, k) = 3)
        idx == IF hit >= 0 THEN hit ELSE Max(start_idx, search_limit)
    IN  IF ~(idx < Len(data)) THEN None
        ELSE IF idx + 1 >= Len(data) THEN None
        ELSE LET str_len == At(data, idx + 1)
                 s0 == idx + 2
             IN  IF ~(s0 + str_len <= Len(data) /\ str_len > 0 /\ str_len < 1000)
                     THEN None
                 ELSE With(StripNul(decode_replace(Slice(data, s0, s0 + str_len))),
                           LAMBDA device_id :
                          IF device_id # <<>>
                          THEN <<device_id, s0 + str_len>>
                          ELSE None)

(* approach 1: the scan for byte 3 stops at the first 3 or at the search    *)
(* limit, and the byte it stopped at is then read as the tag               *)
DeviceIdByte3(data, start_idx) ==
    LET search_limit == Min(start_idx + 100, Len(data))
        hit == First(start_idx, search_limit - 1, LAMBDA k : At(data, k) = 3)
        idx == IF hit >= 0 THEN hit ELSE Max(start_idx, search_limit)
    IN  IF ~(idx < Len(data)) THEN None
        ELSE IF idx + 1 >= Len(data) THEN None
        ELSE LET str_len == At(data, idx + 1)
                 s0 == idx + 2
             IN  IF ~(s0 + str_len <= Len(data) /\ str_len > 0 /\ str_len < 1000)
                     THEN None
                 ELSE With(StripNul(decode_replace(Slice(data, s0, s0 + str_len))),
                           LAMBDA device_id :
                          IF device_id # <<>> /\ _is_valid_device_id(device_id)
                          THEN <<device_id, s0 + str_len>>
                          ELSE None)

(* approaches 2 and 3: the while loop over idx in [idx, search_limit) for   *)
(* tag byte 98 (min_len = 0) or 10 (min_len = 2).  After a candidate that  *)
(* is read and rejected the loop resumes at tag_idx + 3; after a length    *)
(* above 200 it resumes at tag_idx + 1.                                    *)
RECURSIVE DeviceIdTagScan(_, _, _, _, _)
DeviceIdTagScan(data, tag, idx, search_limit, min_len) ==
    LET tag_idx == First(idx, search_limit - 1, LAMBDA k : At(data, k) = tag)
    IN  IF tag_idx < 0 THEN None
        ELSE IF tag_idx + 1 >= Len(data) THEN None
        ELSE LET str_len == At(data, tag_idx + 1)
                 s0 == tag_idx + 2
             IN  IF str_len > 200
                     THEN DeviceIdTagScan(data, tag, tag_idx + 1, search_limit, min_len)
                 ELSE With(Strip(StripNul(decode_replace(
                               Slice(data, s0, s0 + str_len)))),
                           LAMBDA device_id :
                      IF s0 + str_len <= Len(data) /\ str_len > 0
                         /\ device_id # <<>> /\ Len(device_id) > min_len
                         /\ _is_valid_device_id(device_id)
                      THEN <<device_id, s0 + str_len>>
                      ELSE DeviceIdTagScan(data, tag, tag_idx + 3, search_limit,
                                           min_len))

DeviceIdByte98(data, start_idx) ==
    DeviceIdTagScan(data, 98, start_idx, Min(start_idx + 200, Len(data)), 0)

DeviceIdByte10(data, start_idx) ==
    DeviceIdTagScan(data, 10, start_idx, Min(start_idx + 150, Len(data)), 2)

(* approach 4a, second half: taken only when the boundary scan left no      *)
(* candidate and before_str contains "/devices/".  _find_data_start puts    *)
(* the first byte 16 of the data inside data[:start_idx], after any         *)
(* "spaces/", so the boundary scan always leaves a candidate when           *)
(* _decode_protobuf is the caller.                                          *)
DeviceIdDevicesSuffix(data, before_data, before_str, str_start_bytes) ==
    LET devices_pos == FindFrom(before_str, _devices_, str_start_bytes)
        device_num_start == devices_pos + 9
        hit == First(device_num_start,
                     Min(device_num_start + 20, Len(before_str)) - 1,
                     LAMBDA i : i < Len(before_data) /\ At(before_data, i) = 16)
        remaining_str == SliceFrom(before_str, str_start_bytes)
        p == Find(remaining_str, _devices_)
        device_num_raw == SliceFrom(remaining_str, p + 9)
        stop == First(0, Len(device_num_raw) - 1,
                      LAMBDA i : ~IsDigit(At(device_num_raw, i)))
        device_num == IF stop < 0 THEN device_num_raw
                      ELSE Slice(device_num_raw, 0, stop)
        by_number ==
            IF device_num # <<>>
            THEN Slice(remaining_str, 0, p) \o _devices_ \o _devices_ \o device_num
            ELSE <<>>
    IN  IF devices_pos < 0 THEN <<>>
        ELSE IF hit < 0 THEN by_number
        ELSE With(Strip(StripNul(decode_replace(
                      Slice(data, str_start_bytes, hit)))),
                  LAMBDA by_boundary :
                     IF by_boundary # <<>> THEN by_boundary ELSE by_number)

(* approach 4a: "spaces/" in the text before start_idx, cut at the first    *)
(* byte 16 that follows it                                                  *)
DeviceIdSpacesBefore(data, start_idx) ==
    LET before_data == Slice(data, 0, start_idx)
        before_str == decode_ignore(before_data)
        str_start_bytes == Find(before_data, spaces_)
        boundary_idx == First(str_start_bytes, start_idx - 1,
                              LAMBDA k : At(data, k) = 16)
        by_boundary ==
            IF boundary_idx >= 0
            THEN Strip(StripNul(decode_replace(
                     Slice(data, str_start_bytes, boundary_idx))))
            ELSE <<>>
        candidate ==
            With(by_boundary, LAMBDA found :
                IF found = <<>> /\ Contains(before_str, _devices_)
                THEN DeviceIdDevicesSuffix(data, before_data, before_str,
                                           str_start_bytes)
                ELSE found)
    IN  IF ~Contains(before_str, spaces_) THEN None
        ELSE IF str_start_bytes < 0 THEN None
        ELSE With(candidate, LAMBDA device_id_candidate :
             IF device_id_candidate = <<>> THEN None
             ELSE With(SelectSeq(device_id_candidate,
                                 LAMBDA c : IsPrintable(c) \/ c \in PathChars),
                       LAMBDA clean_device_id :
                  IF clean_device_id # <<>> /\ _is_valid_device_id(clean_device_id)
                  THEN <<clean_device_id, start_idx>>
                  ELSE None))

(* approach 4b, one (str_start, boundary_idx) pair with data[boundary_idx] = 16 *)
DeviceIdBoundaryAt(data, str_start, str_end) ==
    IF ~(str_end > str_start /\ str_end - str_start < 300
            /\ str_end - str_start > 10) THEN None
    ELSE With(Strip(StripNul(decode_replace(Slice(data, str_start, str_end)))),
              LAMBDA device_id :
      IF ~(device_id # <<>>
           /\ (Contains(device_id, spaces_) \/ Contains(device_id, _devices_)))
          THEN None
      ELSE IF _is_valid_device_id(device_id) THEN <<device_id, str_end>>
      ELSE IF ~Contains(device_id, _devices_) THEN None
      ELSE With(Split(device_id, _devices_), LAMBDA parts :
        IF Len(parts) # 2 THEN None
        ELSE With(Slice(SelectSeq(parts[2], LAMBDA c : IsAlnum(c)
                                                \/ c \in PathChars), 0, 20),
                  LAMBDA device_num :
             With(parts[1] \o _devices_ \o device_num, LAMBDA clean_device_id :
               IF device_num # <<>> /\ _is_valid_device_id(clean_device_id)
               THEN <<clean_device_id, str_end>>
               ELSE None))))

(* approach 4b: the start positions in list order, for each the boundaries  *)
(* in increasing order; the first pair that yields an id wins.  A position  *)
(* the list already holds is skipped by the code, and would only repeat     *)
(* the outcome of its first occurrence.                                     *)
DeviceIdBoundary(data, start_idx) ==
    LET search_start_positions ==
            <<0>> \o [k \in 1..5 |->
                        Max(0, start_idx - <<10, 20, 30, 50, 100>>[k])]
        (* for one start position: what the first boundary that yields an  *)
        (* id yields, or None                                              *)
        from(str_start) ==
            With(First(str_start, start_idx - 1,
                       LAMBDA b : At(data, b) = 16
                                  /\ DeviceIdBoundaryAt(data, str_start, b) # None),
                 LAMBDA b : IF b < 0 THEN None
                            ELSE DeviceIdBoundaryAt(data, str_start, b))
    IN  With(First(1, Len(search_start_positions),
                   LAMBDA j : search_start_positions[j] < start_idx
                              /\ from(search_start_positions[j]) # None),
             LAMBDA k : IF k < 0 THEN None
                        ELSE from(search_start_positions[k]))

(* approach 4c: the while loop over idx in [idx, start_idx) for one tag     *)
(* byte; a length of 0 or above 200 resumes at tag_idx + 1, a candidate     *)
(* that is rejected or does not fit before start_idx resumes at tag_idx + 3 *)
RECURSIVE DeviceIdTagScanBefore(_, _, _, _)
DeviceIdTagScanBefore(data, tag, idx, start_idx) ==
    LET tag_idx == First(idx, start_idx - 1, LAMBDA k : At(data, k) = tag)
    IN  IF tag_idx < 0 THEN None
        ELSE IF tag_idx + 1 >= Len(data) THEN None
        ELSE LET str_len == At(data, tag_idx + 1)
                 s0 == tag_idx + 2
             IN  IF str_len > 200 \/ str_len = 0
                     THEN DeviceIdTagScanBefore(data, tag, tag_idx + 1, start_idx)
                 ELSE With(Strip(StripNul(decode_replace(
                               Slice(data, s0, s0 + str_len)))),
                           LAMBDA device_id :
                      IF s0 + str_len <= Len(data) /\ s0 + str_len <= start_idx
                         /\ device_id # <<>> /\ _is_valid_device_id(device_id)
                      THEN <<device_id, s0 + str_len>>
                      ELSE DeviceIdTagScanBefore(data, tag, tag_idx + 3, start_idx))

DeviceIdTagsBefore(data, start_idx) ==
    LET search_before_start == Max(0, start_idx - 100)
    IN  OrElse(DeviceIdTagScanBefore(data, 10, search_before_start, start_idx),
               DeviceIdTagScanBefore(data, 98, search_before_start, start_idx))

(* _extract_device_id(data, start_idx): <<device_id or None, end index>> *)
_extract_device_id(data, start_idx) ==
    OrElse(DeviceIdNested(data),
    OrElse(DeviceIdByte3(data, start_idx),
    OrElse(DeviceIdByte98(data, start_idx),
    OrElse(DeviceIdByte10(data, start_idx),
           IF start_idx <= 0 THEN <<None, start_idx>>
           ELSE OrElse(DeviceIdSpacesBefore(data, start_idx),
                OrElse(DeviceIdBoundary(data, start_idx),
                OrElse(DeviceIdTagsBefore(data, start_idx),
                       <<None, start_idx>>)))))))

(* variant: the version is read at the offset of the message id *)
_extract_message_id_same_offset(data, start_idx) ==
    LET usable(k) ==
            With(_find_pattern(data, MESSAGE_ID_PATTERNS[k], start_idx),
                 LAMBDA idx :
                    idx # NoneInt
                    /\ idx + Len(MESSAGE_ID_PATTERNS[k]) + 4 <= Len(data))
        i == First(start_idx, Min(start_idx + 100, Len(data)) - 1,
                   LAMBDA j : At(data, j) = 24 /\ j + 5 <= Len(data))
    IN  With(First(1, Len(MESSAGE_ID_PATTERNS), usable), LAMBDA k :
        IF k >= 0 THEN
            With(_find_pattern(data, MESSAGE_ID_PATTERNS[k], start_idx)
                    + Len(MESSAGE_ID_PATTERNS[k]),
                 LAMBDA pattern_end :
                    <<unpack_I(Slice(data, pattern_end, pattern_end + 4)),
                      IF pattern_end + 8 <= Len(data)
                      THEN unpack_I(Slice(data, pattern_end, pattern_end + 4))
                      ELSE U32(1)>>)
        ELSE IF i >= 0 THEN <<unpack_I(Slice(data, i + 1, i + 5)), U32(1)>>
        ELSE <<None, U32(1)>>)

(* _extract_message_id(data, start_idx): <<message_id or None, version>> *)
_extract_message_id(data, start_idx) ==
    LET usable(k) ==
            With(_find_pattern(data, MESSAGE_ID_PATTERNS[k], start_idx),
                 LAMBDA idx :
                    idx # NoneInt
                    /\ idx + Len(MESSAGE_ID_PATTERNS[k]) + 4 <= Len(data))
        i == First(start_idx, Min(start_idx + 100, Len(data)) - 1,
                   LAMBDA j : At(data, j) = 24 /\ j + 5 <= Len(data))
    IN  With(First(1, Len(MESSAGE_ID_PATTERNS), usable), LAMBDA k :
        IF k >= 0 THEN
            With(_find_pattern(data, MESSAGE_ID_PATTERNS[k], start_idx)
                    + Len(MESSAGE_ID_PATTERNS[k]),
                 LAMBDA pattern_end :
                    <<unpack_I(Slice(data, pattern_end, pattern_end + 4)),
                      IF pattern_end + 8 <= Len(data)
                      THEN unpack_I(Slice(data, pattern_end + 4, pattern_end + 8))
                      ELSE U32(1)>>)
        ELSE IF i >= 0 THEN <<unpack_I(Slice(data, i + 1, i + 5)), U32(1)>>
        ELSE <<None, U32(1)>>)

(* variant: a directly scanned tag byte 50 is preferred to the chained one *)
_extract_text_direct_first(data, search_from_idx) ==
    LET n == Len(data)
        (* offset of the tag byte 50 chained to the timestamp tag at i, or -1 *)
        chained(i) ==
            LET ts_idx == VarintEnd(data, i + 1)
            IN  IF ts_idx < n
                THEN First(ts_idx, Min(ts_idx + 10, n) - 1, LAMBDA k : At(data, k) = 50)
                ELSE -1
        i24 == First(search_from_idx, n - 2,
                     LAMBDA i : At(data, i) = 24 /\ chained(i) >= 0)
        i50 == First(search_from_idx, n - 2,
                     LAMBDA i : At(data, i) = 50 /\ i + 1 < n
                                /\ 0 < At(data, i + 1) /\ At(data, i + 1) <= 200)
        found == With(i50, LAMBDA j :
                    IF j >= 0 THEN j + 1
                    ELSE With(i24, LAMBDA i :
                            IF i >= 0 THEN chained(i) + 1 ELSE NoneInt))
    IN  With(found, LAMBDA text_start :
        IF text_start = NoneInt THEN None
        ELSE IF text_start >= n THEN None
        ELSE With(At(data, text_start), LAMBDA str_len :
             With(text_start + 1, LAMBDA text_str_start :
               IF str_len = 0 \/ str_len > 200 THEN None
               ELSE IF text_str_start + str_len > n THEN None
               ELSE With(decode_replace(Slice(data, text_str_start,
                                              text_str_start + str_len)),
                         LAMBDA text :
                    With(Strip(SelectSeq(text, LAMBDA c : IsPrintable(c)
                                                    \/ c \in {10, 13, 9})),
                         LAMBDA text_clean :
                           IF text_clean # <<>> THEN text_clean ELSE None)))))

(* _extract_text(data, search_from_idx): the text or None *)
_extract_text(data, search_from_idx) ==
    LET n == Len(data)
        (* offset of the tag byte 50 chained to the timestamp tag at i, or -1 *)
        chained(i) ==
            LET ts_idx == VarintEnd(data, i + 1)
            IN  IF ts_idx < n
                THEN First(ts_idx, Min(ts_idx + 10, n) - 1, LAMBDA k : At(data, k) = 50)
                ELSE -1
        i24 == First(search_from_idx, n - 2,
                     LAMBDA i : At(data, i) = 24 /\ chained(i) >= 0)
        i50 == First(search_from_idx, n - 2,
                     LAMBDA i : At(data, i) = 50 /\ i + 1 < n
                                /\ 0 < At(data, i + 1) /\ At(data, i + 1) <= 200)
        found == With(i24, LAMBDA i :
                    IF i >= 0 THEN chained(i) + 1
                    ELSE With(i50, LAMBDA j : IF j >= 0 THEN j + 1 ELSE NoneInt))
    IN  With(found, LAMBDA text_start :
        IF text_start = NoneInt THEN None
        ELSE IF text_start >= n THEN None
        ELSE With(At(data, text_start), LAMBDA str_len :
             With(text_start + 1, LAMBDA text_str_start :
               IF str_len = 0 \/ str_len > 200 THEN None
               ELSE IF text_str_start + str_len > n THEN None
               ELSE With(decode_replace(Slice(data, text_str_start,
                                              text_str_start + str_len)),
                         LAMBDA text :
                    With(Strip(SelectSeq(text, LAMBDA c : IsPrintable(c)
                                                    \/ c \in {10, 13, 9})),
                         LAMBDA text_clean :
                           IF text_clean # <<>> THEN text_clean ELSE None)))))

(* _extract_lang_id(data, start_idx): the byte after the first pattern that *)
(* is followed by one, or None *)
_extract_lang_id(data, start_idx) ==
    LET usable(k) ==
            LET idx == _find_pattern(data, LANG_ID_PATTERNS[k], start_idx)
            IN  idx # NoneInt /\ idx + Len(LANG_ID_PATTERNS[k]) < Len(data)
        k == First(1, Len(LANG_ID_PATTERNS), usable)
    IN  IF k < 0 THEN NoneInt
        ELSE At(data, _find_pattern(data, LANG_ID_PATTERNS[k], start_idx)
                        + Len(LANG_ID_PATTERNS[k]))

(* Outcomes of a call: a returned value or a raised exception.  An          *)
(* exception carries its class and the place that raised it.                *)
Returned(v) == [raised |-> FALSE, value |-> v]
Raised(cls, at) == [raised |-> TRUE, exc |-> cls, at |-> at]

(* _decode_protobuf(data): every exception raised inside the try block is   *)
(* re-raised as ValueError                                                  *)
_decode_protobuf(data) ==
    IF Len(data) < 10 THEN Raised("ValueError", "protobuf_too_short")
    ELSE With(_find_data_start(data), LAMBDA start_idx :
      IF start_idx = NoneInt THEN Raised("ValueError", "start_marker")
      ELSE With(_extract_device_id(data, start_idx), LAMBDA dev :
        With(dev[1], LAMBDA device_id :
        With(dev[2], LAMBDA device_end :
        With(_extract_text(data, IF device_end > 0 THEN device_end
                                 ELSE start_idx), LAMBDA text :
        With(IF device_end > start_idx THEN device_end ELSE start_idx,
             LAMBDA search_start :
        With(_extract_message_id(data, search_start), LAMBDA msg :
        With(_extract_lang_id(data, search_start), LAMBDA lang_id :
          Returned([device_id |-> IF device_id = None THEN <<>> ELSE device_id,
                    message_id |-> msg[1],
                    text |-> IF text = None THEN <<>> ELSE text,
                    version |-> IF msg[2] = U32(0) THEN U32(1) ELSE msg[2],
                    lang_id |-> lang_id])))))))))

(* _decompress_gzip(data).  data[4] is read whenever len(data) > 3 and      *)
(* data[3] = 0x1f, also when len(data) = 4.                                 *)
_decompress_gzip(data) ==
    IF Len(data) < 2 THEN Raised("ValueError", "gzip_too_short")
    ELSE IF At(data, 0) = 31 /\ At(data, 1) = 139 THEN
        With(gzip_decompress(data), LAMBDA r :
            IF r.ok THEN Returned(r.val) ELSE Raised("ValueError", "gzip"))
    ELSE IF Len(data) > 3 /\ At(data, 3) = 31 THEN
        IF Len(data) = 4 THEN Raised("IndexError", "gzip_magic_offset3")
        ELSE IF At(data, 4) = 139 THEN
            With(gzip_decompress(SliceFrom(data, 3)), LAMBDA r :
                IF r.ok THEN Returned(r.val)
                ELSE Raised("ValueError", "gzip_offset3"))
        ELSE Returned(data)
    ELSE Returned(data)

(* decode_raw_data(raw_data_base64): the outer except clause re-raises what *)
(* it caught, unchanged                                                     *)
decode_raw_data(raw_data_base64) ==
    With(b64decode(raw_data_base64), LAMBDA raw :
        IF ~raw.ok THEN Raised("ValueError", "base64")
        ELSE IF Len(raw.val) = 0 THEN Raised("ValueError", "base64_empty")
        ELSE With(_decompress_gzip(raw.val), LAMBDA decompressed :
                IF decompressed.raised THEN decompressed
                ELSE Strict(decompressed.value, _decode_protobuf)))

(***************************************************************************)
(* MappingService (services/mapping.py).  The service is one object per    *)
(* process; its methods contain no await, so each call runs to its end     *)
(* before the event loop runs anything else.                               *)
(***************************************************************************)
VARIABLES
    _mapping,        (* meeting_id -> (device_id -> [name, variants, updated_at]) *)
    _index,          (* meeting_id -> (variant -> device_id)                *)
    _cleanup_times,  (* meeting_id -> time after which the sweep clears it  *)
    now,             (* the clock, in hours                                 *)
    last,            (* the latest call that changed the mapping            *)
    result           (* the latest lookup made since that call              *)

mapping_vars == <<_mapping, _index, _cleanup_times, now, last, result>>

(* f with f[k] set to v; f without k *)
Put(f, k, v) == [x \in DOMAIN f \cup {k} |-> IF x = k THEN v ELSE f[x]]
Drop(f, k) == [x \in DOMAIN f \ {k} |-> f[x]]

(* the empty dict *)
EmptyDict == [x \in {} |-> x]

(* MappingService.ttl_hours *)
ttl_hours == 24

(* _clean_device_id(device_id): leading characters 0x00..0x1F removed *)
_clean_device_id(device_id) == LStripSet(device_id, 0..31)

(* variant: the id is looked up as a key of the index before its parts are *)
find_name_by_device_id_raw_first(meeting_id, device_id) ==
    IF meeting_id \notin DOMAIN _mapping THEN None
    ELSE
    LET mapping == _mapping[meeting_id]
        index == _index[meeting_id]
        via(key) == mapping[index[key]].name
        cleaned_id == _clean_device_id(device_id)
        device_part == SplitLast(device_id, devices_)
        space_device_path == SplitLast(device_id, spaces_)
        last_part == SplitLast(device_id, <<47>>)
    IN  IF device_id \in DOMAIN mapping THEN mapping[device_id].name
        ELSE IF cleaned_id # <<>> /\ cleaned_id # device_id
                /\ cleaned_id \in DOMAIN mapping
            THEN mapping[cleaned_id].name
        ELSE IF cleaned_id # <<>> /\ cleaned_id # device_id
                /\ cleaned_id \in DOMAIN index
            THEN via(cleaned_id)
        ELSE IF device_id \in DOMAIN index THEN via(device_id)
        ELSE IF Contains(device_id, devices_) /\ device_part \in DOMAIN index
            THEN via(device_part)
        ELSE IF Contains(device_id, devices_) /\ Contains(device_id, spaces_)
                /\ space_device_path \in DOMAIN index
            THEN via(space_device_path)
        ELSE IF Contains(device_id, <<47>>) /\ last_part \in DOMAIN index
            THEN via(last_part)
        ELSE None

(* the outcome of a lookup whose dict subscript raises KeyError *)
KeyError == <<-2>>

(* variant: a variant is indexed under itself, not under the canonical id *)
save_mapping_index_self(meeting_id, device_id, name, variants) ==
    LET known == meeting_id \in DOMAIN _mapping
        mapping == IF known THEN _mapping[meeting_id] ELSE EmptyDict
        index == IF known THEN _index[meeting_id] ELSE EmptyDict
        keys == SeqToSet(<<device_id>> \o variants) \ {<<>>}
    IN  /\ _mapping' = Put(_mapping, meeting_id,
                           Put(mapping, device_id,
                               [name |-> name, variants |-> variants,
                                updated_at |-> now]))
        /\ _index' = Put(_index, meeting_id,
                         [k \in DOMAIN index \cup keys |->
                            IF k \in keys THEN k ELSE index[k]])
        /\ _cleanup_times' = Put(_cleanup_times, meeting_id, now + ttl_hours)

(* variant: the part after "spaces/" is not looked up *)
find_name_by_device_id_no_spaces(meeting_id, device_id) ==
    IF meeting_id \notin DOMAIN _mapping THEN None
    ELSE
    LET mapping == _mapping[meeting_id]
        index == _index[meeting_id]
        via(key) == IF index[key] \in DOMAIN mapping
                    THEN mapping[index[key]].name
                    ELSE KeyError
        cleaned_id == _clean_device_id(device_id)
        device_part == SplitLast(device_id, devices_)
        space_device_path == SplitLast(device_id, spaces_)
        parts == Split(device_id, <<47>>)
        last_part == parts[Len(parts)]
    IN  (* 1. the id itself is a canonical id *)
        IF device_id \in DOMAIN mapping THEN mapping[device_id].name
        (* 2. the id without its leading control characters *)
        ELSE IF cleaned_id # <<>> /\ cleaned_id # device_id
                /\ cleaned_id \in DOMAIN mapping
            THEN mapping[cleaned_id].name
        ELSE IF cleaned_id # <<>> /\ cleaned_id # device_id
                /\ cleaned_id \in DOMAIN index
            THEN via(cleaned_id)
        (* 3. the part after "devices/" *)
        ELSE IF Contains(device_id, devices_) /\ device_part \in DOMAIN index
            THEN via(device_part)
        (* 4. the part after the last "/" *)
        ELSE IF Contains(device_id, <<47>>) /\ last_part \in DOMAIN index
            THEN via(last_part)
        ELSE IF Contains(device_id, <<47>>) /\ Len(parts) >= 2
                /\ parts[Len(parts) - 1] = devices
                /\ parts[Len(parts)] \in DOMAIN index
            THEN via(parts[Len(parts)])
        (* 5. the id as a key of the index *)
        ELSE IF device_id \in DOMAIN index THEN via(device_id)
        ELSE None

(* find_name_by_device_id(meeting_id, device_id): the name or None; the    *)
(* entry an index key leads to is read with a subscript, which raises      *)
(* KeyError when the entry does not exist                                  *)
find_name_by_device_id(meeting_id, device_id) ==
    IF meeting_id \notin DOMAIN _mapping THEN None
    ELSE
    LET mapping == _mapping[meeting_id]
        index == _index[meeting_id]
        via(key) == IF index[key] \in DOMAIN mapping
                    THEN mapping[index[key]].name
                    ELSE KeyError
        cleaned_id == _clean_device_id(device_id)
        device_part == SplitLast(device_id, devices_)
        space_device_path == SplitLast(device_id, spaces_)
        parts == Split(device_id, <<47>>)
        last_part == parts[Len(parts)]
    IN  (* 1. the id itself is a canonical id *)
        IF device_id \in DOMAIN mapping THEN mapping[device_id].name
        (* 2. the id without its leading control characters *)
        ELSE IF cleaned_id # <<>> /\ cleaned_id # device_id
                /\ cleaned_id \in DOMAIN mapping
            THEN mapping[cleaned_id].name
        ELSE IF cleaned_id # <<>> /\ cleaned_id # device_id
                /\ cleaned_id \in DOMAIN index
            THEN via(cleaned_id)
        (* 3. the part after "devices/", then the part after "spaces/" *)
        ELSE IF Contains(device_id, devices_) /\ device_part \in DOMAIN index
            THEN via(device_part)
        ELSE IF Contains(device_id, devices_) /\ Contains(device_id, spaces_)
                /\ space_device_path \in DOMAIN index
            THEN via(space_device_path)
        (* 4. the part after the last "/" *)
        ELSE IF Contains(device_id, <<47>>) /\ last_part \in DOMAIN index
            THEN via(last_part)
        ELSE IF Contains(device_id, <<47>>) /\ Len(parts) >= 2
                /\ parts[Len(parts) - 1] = devices
                /\ parts[Len(parts)] \in DOMAIN index
            THEN via(parts[Len(parts)])
        (* 5. the id as a key of the index *)
        ELSE IF device_id \in DOMAIN index THEN via(device_id)
        ELSE None

(* get_unknown_name(device_id): "Unknown (" + last four characters + ")" *)
get_unknown_name(device_id) ==
    <<85, 110, 107, 110, 111, 119, 110, 32, 40>>
    \o (IF Len(device_id) >= 4 THEN SliceFrom(device_id, Len(device_id) - 4)
        ELSE device_id)
    \o <<41>>

(* the index after the variants of all_variants, in order, are given to    *)
(* device_id; empty strings are skipped                                    *)
RECURSIVE IndexVariants(_, _, _)
IndexVariants(index, all_variants, device_id) ==
    IF all_variants = <<>> THEN index
    ELSE IndexVariants(IF Head(all_variants) # <<>>
                       THEN Put(index, Head(all_variants), device_id)
                       ELSE index,
                       Tail(all_variants), device_id)

(* variant: only the first of the variants is indexed *)
save_mapping_first_variant(meeting_id, device_id, name, variants) ==
    LET known == meeting_id \in DOMAIN _mapping
        mapping == IF known THEN _mapping[meeting_id] ELSE EmptyDict
        index == IF known THEN _index[meeting_id] ELSE EmptyDict
    IN  /\ _mapping' = Put(_mapping, meeting_id,
                           Put(mapping, device_id,
                               [name |-> name, variants |-> variants,
                                updated_at |-> now]))
        /\ _index' = Put(_index, meeting_id,
                         IndexVariants(index,
                                       <<device_id>>
                                         \o SubSeq(variants, 1, Min(1, Len(variants))),
                                       device_id))
        /\ _cleanup_times' = Put(_cleanup_times, meeting_id, now + ttl_hours)

(* variant: the canonical id is indexed, the variants are not *)
save_mapping_no_variants(meeting_id, device_id, name, variants) ==
    LET known == meeting_id \in DOMAIN _mapping
        mapping == IF known THEN _mapping[meeting_id] ELSE EmptyDict
        index == IF known THEN _index[meeting_id] ELSE EmptyDict
    IN  /\ _mapping' = Put(_mapping, meeting_id,
                           Put(mapping, device_id,
                               [name |-> name, variants |-> variants,
                                updated_at |-> now]))
        /\ _index' = Put(_index, meeting_id,
                         IndexVariants(index, <<device_id>>, device_id))
        /\ _cleanup_times' = Put(_cleanup_times, meeting_id, now + ttl_hours)

(* save_mapping(meeting_id, device_id, name, variants) *)
save_mapping(meeting_id, device_id, name, variants) ==
    LET known == meeting_id \in DOMAIN _mapping
        mapping == IF known THEN _mapping[meeting_id] ELSE EmptyDict
        index == IF known THEN _index[meeting_id] ELSE EmptyDict
    IN  /\ _mapping' = Put(_mapping, meeting_id,
                           Put(mapping, device_id,
                               [name |-> name, variants |-> variants,
                                updated_at |-> now]))
        /\ _index' = Put(_index, meeting_id,
                         IndexVariants(index, <<device_id>> \o variants, device_id))
        /\ _cleanup_times' = Put(_cleanup_times, meeting_id, now + ttl_hours)

(* variant: every meeting is cleared *)
clear_mapping_all(meeting_id) ==
    /\ _mapping' = EmptyDict
    /\ _index' = EmptyDict
    /\ _cleanup_times' = EmptyDict

(* variant: the index of the meeting is left behind *)
clear_mapping_keep_index(meeting_id) ==
    /\ _mapping' = Drop(_mapping, meeting_id)
    /\ _index' = _index
    /\ _cleanup_times' = Drop(_cleanup_times, meeting_id)

(* clear_mapping(meeting_id) *)
clear_mapping(meeting_id) ==
    /\ _mapping' = Drop(_mapping, meeting_id)
    /\ _index' = Drop(_index, meeting_id)
    /\ _cleanup_times' = Drop(_cleanup_times, meeting_id)

(* variant: a meeting is swept from the moment its cleanup time is reached *)
mapping_cleanup_expired_at_ttl ==
    LET expired_meetings ==
            {m \in DOMAIN _cleanup_times : _cleanup_times[m] <= now}
    IN  /\ _mapping' = [m \in DOMAIN _mapping \ expired_meetings |-> _mapping[m]]
        /\ _index' = [m \in DOMAIN _index \ expired_meetings |-> _index[m]]
        /\ _cleanup_times' =
              [m \in DOMAIN _cleanup_times \ expired_meetings |-> _cleanup_times[m]]

(* cleanup_expired(): clear_mapping for every meeting whose cleanup time   *)
(* is before now                                                           *)
mapping_cleanup_expired ==
    LET expired_meetings ==
            {m \in DOMAIN _cleanup_times : _cleanup_times[m] < now}
    IN  /\ _mapping' = [m \in DOMAIN _mapping \ expired_meetings |-> _mapping[m]]
        /\ _index' = [m \in DOMAIN _index \ expired_meetings |-> _index[m]]
        /\ _cleanup_times' =
              [m \in DOMAIN _cleanup_times \ expired_meetings |-> _cleanup_times[m]]

(***************************************************************************)
(* MessageCacheService (services/message_cache.py): one object per         *)
(* process, its methods without await                                      *)
(***************************************************************************)
VARIABLES
    _cache,     (* meeting_id -> (cache key -> [text, version, processed_at]) *)
    recorded,   (* history: (meeting, message id, device id) -> the latest  *)
                (* cache_message call made with them                        *)
    evicted     (* history: the keys is_duplicate removed as expired and    *)
                (* that were not recorded since                             *)

cache_vars == <<_cache, recorded, evicted>>

(* str(n) for a uint32 n *)
RECURSIVE str_u32(_)
str_u32(x) ==
    LET t == (x[1] % 10) * 65536 + x[2]
        q == <<x[1] \div 10, t \div 10>>
    IN  IF q = <<0, 0>> THEN <<48 + (t % 10)>>
        ELSE str_u32(q) \o <<48 + (t % 10)>>

(* str(n) for a small non-negative int n *)
str_int(n) == str_u32(U32(n))

(* MessageCacheService.ttl_hours *)
cache_ttl_hours == 1

_messages_ == <<58, 109, 101, 115, 115, 97, 103, 101, 115, 58>>
none_ == <<110, 111, 110, 101>>

(* variant: a message id of 0 is written as "none", like an absent one *)
get_cache_key_falsy(meeting_id, message_id, device_id) ==
    meeting_id \o _messages_
    \o (IF message_id # None /\ message_id # <<0, 0>>
        THEN str_u32(message_id) ELSE none_)
    \o <<47>> \o device_id

(* get_cache_key(meeting_id, message_id, device_id) *)
get_cache_key(meeting_id, message_id, device_id) ==
    meeting_id \o _messages_
    \o (IF message_id # None THEN str_u32(message_id) ELSE none_)
    \o <<47>> \o device_id

(* whether is_duplicate finds an entry under the key and finds it expired *)
is_expired(meeting_id, cache_key) ==
    /\ meeting_id \in DOMAIN _cache
    /\ cache_key \in DOMAIN _cache[meeting_id]
    /\ _cache[meeting_id][cache_key].processed_at + cache_ttl_hours < now

(* the cache without the entry cache_key of meeting_id, and without the    *)
(* meeting when that was its last entry                                    *)
DropEntry(cache, meeting_id, cache_key) ==
    LET rest == Drop(cache[meeting_id], cache_key)
    IN  IF DOMAIN rest = {} THEN Drop(cache, meeting_id)
        ELSE Put(cache, meeting_id, rest)

(* variant: texts are compared, versions are not *)
is_duplicate_text_only(meeting_id, message_id, device_id, text, version) ==
    LET cache_key == get_cache_key(meeting_id, message_id, device_id)
    IN  IF meeting_id \notin DOMAIN _cache THEN FALSE
        ELSE IF cache_key \notin DOMAIN _cache[meeting_id] THEN FALSE
        ELSE IF is_expired(meeting_id, cache_key) THEN FALSE
        ELSE _cache[meeting_id][cache_key].text = text

(* is_duplicate(...): the value returned *)
is_duplicate(meeting_id, message_id, device_id, text, version) ==
    LET cache_key == get_cache_key(meeting_id, message_id, device_id)
    IN  IF meeting_id \notin DOMAIN _cache THEN FALSE
        ELSE IF cache_key \notin DOMAIN _cache[meeting_id] THEN FALSE
        ELSE IF is_expired(meeting_id, cache_key) THEN FALSE
        ELSE /\ _cache[meeting_id][cache_key].text = text
             /\ _cache[meeting_id][cache_key].version = version

(* variant: an expired entry is reported and left in place *)
is_duplicate_cache_keep(meeting_id, message_id, device_id) ==
    _cache

(* variant: the key looked up is recorded at once, as seen *)
is_duplicate_cache_mark(meeting_id, message_id, device_id) ==
    LET bucket == IF meeting_id \in DOMAIN _cache THEN _cache[meeting_id]
                  ELSE EmptyDict
    IN  Put(_cache, meeting_id,
            Put(bucket, get_cache_key(meeting_id, message_id, device_id),
                [text |-> <<>>, version |-> U32(1), processed_at |-> now]))

(* variant: a live entry that is looked up is stamped with the time of the *)
(* lookup                                                                  *)
is_duplicate_cache_refresh(meeting_id, message_id, device_id) ==
    LET cache_key == get_cache_key(meeting_id, message_id, device_id)
    IN  IF is_expired(meeting_id, cache_key)
        THEN DropEntry(_cache, meeting_id, cache_key)
        ELSE IF /\ meeting_id \in DOMAIN _cache
                /\ cache_key \in DOMAIN _cache[meeting_id]
        THEN [_cache EXCEPT ![meeting_id][cache_key].processed_at = now]
        ELSE _cache

(* is_duplicate(...): the cache it leaves, an expired entry removed *)
is_duplicate_cache(meeting_id, message_id, device_id) ==
    LET cache_key == get_cache_key(meeting_id, message_id, device_id)
    IN  IF is_expired(meeting_id, cache_key)
        THEN DropEntry(_cache, meeting_id, cache_key)
        ELSE _cache

(* cache_message(...): the cache it leaves *)
cache_message(meeting_id, message_id, device_id, text, version) ==
    LET bucket == IF meeting_id \in DOMAIN _cache THEN _cache[meeting_id]
                  ELSE EmptyDict
    IN  Put(_cache, meeting_id,
            Put(bucket, get_cache_key(meeting_id, message_id, device_id),
                [text |-> text, version |-> version, processed_at |-> now]))

(* cleanup_expired(): the cache without its expired entries and without    *)
(* the meetings left empty                                                 *)
cache_cleanup_expired ==
    LET live(m) == {k \in DOMAIN _cache[m] :
                      ~(_cache[m][k].processed_at + cache_ttl_hours < now)}
    IN  [m \in {x \in DOMAIN _cache : live(x) # {}} |->
            [k \in live(m) |-> _cache[m][k]]]

(***************************************************************************)
(* POST /{meeting_id}/raw-transcript (api/meetings.py): decoding and       *)
(* validation of the decoded event                                         *)
(***************************************************************************)
fallback_msg_ == <<102, 97, 108, 108, 98, 97, 99, 107, 95, 109, 115, 103, 95>>
fallback_ == <<102, 97, 108, 108, 98, 97, 99, 107, 95>>

(* the characters of '\x00\x01\x02\x03\x04\x05\x06\x07\x08\x0b\x0c' *)
ServiceChars == (0..8) \cup {11, 12}

(* the fallback device id of an event decoded with text but without a      *)
(* usable device id; timestamp_hash is hash(str(request.timestamp)) %      *)
(* 1000000, or 0 for a request without timestamp                           *)
FallbackDeviceId(decoded_data, request, meeting_id, timestamp_hash) ==
    IF decoded_data.message_id # None /\ decoded_data.message_id # U32(0)
    THEN fallback_msg_ \o str_u32(decoded_data.message_id)
    ELSE LET session_suffix == IF request.session_id # <<>>
                               THEN Slice(request.session_id, 0, 8)
                               ELSE Slice(meeting_id, 0, 8)
         IN  fallback_ \o session_suffix \o <<95>> \o str_int(timestamp_hash)

(* decoded_data after the fallback step *)
WithFallback(decoded_data, request, meeting_id, timestamp_hash) ==
    LET device_id_clean == Strip(StripSet(decoded_data.device_id, ServiceChars))
    IN  IF device_id_clean = <<>> /\ decoded_data.text # <<>>
        THEN [decoded_data EXCEPT !.device_id =
                 FallbackDeviceId(decoded_data, request, meeting_id, timestamp_hash)]
        ELSE decoded_data

(* variant: the validation looks at the device id only *)
HandleDecoded_no_text_check(outcome, request, meeting_id, timestamp_hash) ==
    IF outcome.raised
    THEN IF outcome.exc = "ValueError"
         THEN [kind |-> "response", success |-> FALSE, saved |-> FALSE,
               error |-> "Failed to decode"]
         ELSE [kind |-> "http_error", status_code |-> 500]
    ELSE LET decoded_data == WithFallback(outcome.value, request, meeting_id,
                                          timestamp_hash)
         IN  IF decoded_data.device_id = <<>>
             THEN [kind |-> "response", success |-> FALSE, saved |-> FALSE,
                   error |-> "Decoded data missing device_id or text"]
             ELSE [kind |-> "event", decoded_data |-> decoded_data]

(* what the handler does with the decoder's outcome: the response it       *)
(* returns at once, or the event it carries on with                        *)
HandleDecoded(outcome, request, meeting_id, timestamp_hash) ==
    IF outcome.raised
    THEN IF outcome.exc = "ValueError"
         THEN [kind |-> "response", success |-> FALSE, saved |-> FALSE,
               error |-> "Failed to decode"]
         ELSE [kind |-> "http_error", status_code |-> 500]
    ELSE LET decoded_data == WithFallback(outcome.value, request, meeting_id,
                                          timestamp_hash)
         IN  IF decoded_data.device_id = <<>> \/ decoded_data.text = <<>>
             THEN [kind |-> "response", success |-> FALSE, saved |-> FALSE,
                   error |-> "Decoded data missing device_id or text"]
             ELSE [kind |-> "event", decoded_data |-> decoded_data]

(***************************************************************************)
(* State                                                                   *)
(***************************************************************************)
VARIABLES
    request,    (* the raw-transcript request being handled                *)
    decoded,    (* outcome of decoder_service.decode_raw_data(raw_data)    *)
    response    (* what the handler made of that outcome                   *)

decode_vars == <<request, decoded, response>>

VARIABLES
    call,       (* a call of one function of the services: its arguments   *)
    returned    (* the value that call returned                            *)

call_vars == <<call, returned>>

VARIABLES
    handlers,   (* the requests in progress: where each one is and its     *)
                (* local variables                                         *)
    persisted,  (* history: the segments given to db.add(segment) whose    *)
                (* db.commit() has returned                                *)
    received    (* the number of requests received so far                  *)

ingest_vars == <<handlers, persisted, received>>

vars == <<decode_vars, mapping_vars, cache_vars, call_vars, ingest_vars>>

(* the parts of the state a specification leaves as they are at start *)
DecodeIdle == request = NotYet /\ decoded = NotYet /\ response = NotYet
MappingIdle ==
    /\ _mapping = EmptyDict
    /\ _index = EmptyDict
    /\ _cleanup_times = EmptyDict
    /\ now = 0
    /\ last = NotYet
    /\ result = NotYet
CacheIdle == _cache = EmptyDict /\ recorded = EmptyDict /\ evicted = {}
CallIdle == call = NotYet /\ returned = NotYet
IngestIdle == handlers = <<>> /\ persisted = {} /\ received = 0

(***************************************************************************)
(* Requests of the decoding specification                                  *)
(***************************************************************************)
(* small versions and message ids run over 0..MaxSmall *)
MaxSmall == 2
(* unstructured payloads are the byte strings of length 0..MaxRawLen over  *)
(* RawBytes                                                                *)
MaxRawLen == 4

(* "spaces/ABC/devices/1" and two 31-character ids of the same shape *)
id_spaces_j5 == <<115, 112, 97, 99, 101, 115, 47, 106, 53, 90, 86, 51, 66, 83, 82, 72, 90, 69, 66, 47, 100, 101, 118, 105, 99, 101, 115, 47, 50, 50, 55>>
id_spaces_ABC == <<115, 112, 97, 99, 101, 115, 47, 65, 66, 67, 47, 100, 101, 118, 105, 99, 101, 115, 47, 49>>
id_spaces_31 == <<115, 112, 97, 99, 101, 115, 47, 65, 66, 67, 68, 69, 70, 71, 72, 73, 74, 75, 76, 47, 100, 101, 118, 105, 99, 101, 115, 47, 49, 50, 51>>
id_dev1 == <<100, 101, 118, 49>>
text_test == <<116, 101, 115, 116>>
text_hi_there == <<104, 105, 32, 116, 104, 101, 114, 101>>
session_id_0 == <<115, 101, 115, 115, 45, 48, 48, 48, 49, 45, 120, 121, 122>>
meeting_id_0 == <<97, 98, 99, 45, 100, 101, 102, 103, 45, 104, 105, 106>>

U32Samples == {U32(n) : n \in 0..MaxSmall} \cup {<<258, 772>>, <<65535, 65535>>}
(* 0x00620162: its little-endian bytes 98, 1, 98, 0 read as a tagged string *)
MessageIdSamples == U32Samples \cup {<<98, 354>>}
LangSamples == {0, 72, 255}
RawBytes == {0, 31, 139}

(* [16,1, 10,33,10,31, id, 16, 24,5,50,4,"test", 24,0,32,1,45,0, msgid,    *)
(* version]: the end-to-end scenario buffer                                *)
ScenarioBuffer(id, msgid, version) ==
    <<16, 1, 10, 33, 10, 31>> \o id \o <<16, 24, 5, 50, 4>> \o text_test
    \o <<24, 0, 32, 1, 45, 0>> \o pack_I(msgid) \o pack_I(version)

(* start marker, device-id block, timestamp+text block, message-id pattern *)
(* with msgid and version, lang-id pattern with one byte                   *)
LayoutBuffer(tag, id, text, msgid, version, lang) ==
    <<16, 1>> \o <<tag, Len(id)>> \o id \o <<24, 5, 50, Len(text)>> \o text
    \o <<24, 0, 32, 1, 45, 0>> \o pack_I(msgid) \o pack_I(version)
    \o <<64, 0, 72, lang>>

(* [10, length, 10, length of id, id, 16, ...]: the buffer opens with the   *)
(* nested device-id structure and the start marker follows it              *)
NestedBuffer(id, msgid, version) ==
    <<10, Len(id) + 2, 10, Len(id)>> \o id \o <<16, 24, 5, 50, 4>> \o text_test
    \o <<24, 0, 32, 1, 45, 0>> \o pack_I(msgid) \o pack_I(version)

(* the offset at which _find_data_start finds the start-marker byte of a   *)
(* buffer: the first byte 16 before the last byte; -1 when there is none   *)
MarkerOffset(buffer) == First(0, Len(buffer) - 2, LAMBDA i : At(buffer, i) = 16)

(* what the capture client sends for a buffer *)
Blob(buffer) == b64encode(gzip_compress(buffer))

(* all byte strings over RawBytes of length n *)
RECURSIVE BytesOfLen(_)
BytesOfLen(n) ==
    IF n = 0 THEN {<<>>}
    ELSE {<<b>> \o t : b \in RawBytes, t \in BytesOfLen(n - 1)}

(* strings that are not the base64 of anything: "A", "AAAA=", "!!!", "é"   *)
BadBase64 == {<<65>>, <<65, 65, 65, 65, 61>>, <<33, 33, 33>>, <<233>>}

Request(kind, buffer, device_id, text, message_id, version, lang_id, raw_data) ==
    [kind |-> kind, buffer |-> buffer, device_id |-> device_id, text |-> text,
     message_id |-> message_id, version |-> version, lang_id |-> lang_id,
     raw_data |-> raw_data, session_id |-> session_id_0]

ScenarioRequests ==
    {Request("scenario", ScenarioBuffer(id, m, v), id, text_test, m, v, NoneInt,
             Blob(ScenarioBuffer(id, m, v))) :
        id \in {id_spaces_ABC, id_spaces_31}, m \in MessageIdSamples, v \in U32Samples}

NestedRequests ==
    {Request("nested", NestedBuffer(id, m, v), id, text_test, m, v, NoneInt,
             Blob(NestedBuffer(id, m, v))) :
        id \in {id_spaces_j5, id_spaces_31}, m \in MessageIdSamples, v \in U32Samples}

LayoutRequests ==
    {Request("layout", LayoutBuffer(98, id, t, m, v, l), id, t, m, v, l,
             Blob(LayoutBuffer(98, id, t, m, v, l))) :
        id \in {id_spaces_ABC, id_dev1}, t \in {text_test, text_hi_there},
        m \in {U32(0), <<258, 772>>}, v \in U32Samples, l \in LangSamples}

(* a text of 90 characters over "a", "b" and " " *)
text_ab ==
    <<97, 98, 97, 98, 98, 32, 32, 97, 32, 32, 32, 98, 97, 98, 98, 98, 98, 32,
      98, 97, 98, 98, 32, 97, 97, 98, 97, 32, 98, 98, 97, 32, 98, 98, 98, 32,
      97, 98, 97, 32, 97, 32, 97, 97, 97, 98, 98, 32, 98, 32, 98, 98, 97, 32,
      32, 98, 98, 97, 98, 97, 97, 98, 32, 32, 98, 97, 98, 98, 32, 32, 97, 98,
      32, 98, 98, 97, 97, 32, 97, 32, 32, 98, 98, 97, 32, 97, 97, 32, 32, 98>>

(* what gzip.compress of Python sends, in base64, for                      *)
(* LayoutBuffer(98, "dev1", "test", 0, 0, 0), one fixed-Huffman block, and *)
(* for LayoutBuffer(98, "dev1", text_ab, 0x01020304, 2, 0), one            *)
(* dynamic-Huffman block                                                   *)
blob_fixed ==
    <<72, 52, 115, 73, 65, 65, 65, 65, 65, 65, 65, 67, 65, 120, 78, 103, 84,
      71, 74, 74, 83, 83, 48, 122, 108, 71, 65, 49, 89, 105, 108, 74, 76, 83,
      54, 82, 89, 70, 66, 103, 49, 71, 87, 65, 65, 81, 99, 71, 68, 119, 89,
      65, 76, 116, 72, 106, 86, 67, 73, 65, 65, 65, 65, 61>>
blob_dynamic ==
    <<72, 52, 115, 73, 65, 65, 65, 65, 65, 65, 65, 67, 65, 121, 86, 76, 117,
      120, 87, 65, 81, 65, 103, 76, 53, 57, 108, 98, 88, 115, 107, 67, 70,
      106, 113, 66, 112, 84, 80, 89, 107, 97, 99, 114, 79, 76, 56, 66, 72,
      119, 47, 121, 73, 52, 117, 120, 51, 56, 43, 55, 106, 88, 109, 47, 103,
      107, 71, 54, 104, 55, 115, 110, 69, 121, 56, 106, 53, 68, 116, 114, 74,
      89, 83, 97, 121, 73, 68, 108, 53, 113, 72, 48, 88, 49, 75, 57, 55, 80,
      121, 113, 79, 66, 73, 72, 51, 70, 98, 48, 113, 86, 107, 68, 99, 79, 68,
      69, 66, 50, 97, 107, 57, 65, 112, 52, 65, 65, 65, 65>>

DeflatedRequests ==
    {Request("layout", LayoutBuffer(98, id_dev1, text_test, U32(0), U32(0), 0),
             id_dev1, text_test, U32(0), U32(0), 0, blob_fixed),
     Request("layout",
             LayoutBuffer(98, id_dev1, text_ab, <<258, 772>>, U32(2), 0),
             id_dev1, text_ab, <<258, 772>>, U32(2), 0, blob_dynamic)}

(* the prefixes of a nested buffer that end before its start marker *)
TruncatedOf(buffer, id) ==
    {Request("truncated", Slice(buffer, 0, cut), id, text_test, U32(7), U32(2),
             NoneInt, Blob(Slice(buffer, 0, cut))) :
        cut \in 0..MarkerOffset(buffer)}

TruncatedRequests ==
    UNION {TruncatedOf(NestedBuffer(id, U32(7), U32(2)), id) :
             id \in {id_spaces_ABC, id_spaces_31}}

(* payloads that are not gzip, sent as they are, and malformed base64 *)
RawRequests ==
    {Request("raw", b, <<>>, <<>>, None, U32(1), NoneInt, b64encode(b)) :
        b \in UNION {BytesOfLen(n) : n \in 0..MaxRawLen}}
    \cup {Request("raw", <<>>, <<>>, <<>>, None, U32(1), NoneInt, x) :
            x \in BadBase64}

Requests == ScenarioRequests \cup NestedRequests \cup LayoutRequests
            \cup DeflatedRequests \cup TruncatedRequests \cup RawRequests

(***************************************************************************)
(* Decoding specification: the decoder and the handler's validation        *)
(* applied to one request                                                  *)
(***************************************************************************)
InitDecode ==
    /\ request \in Requests
    /\ decoded = NotYet
    /\ response = NotYet
    /\ MappingIdle
    /\ CacheIdle
    /\ CallIdle
    /\ IngestIdle

(* decoded_data = decoder_service.decode_raw_data(request.raw_data) *)
Decode ==
    /\ decoded = NotYet
    /\ decoded' = decode_raw_data(request.raw_data)
    /\ UNCHANGED <<request, response, mapping_vars, cache_vars,
                   call_vars, ingest_vars>>

(* the except ValueError clause, the fallback device id and the validation *)
(* of the decoded event                                                    *)
Validate ==
    /\ decoded # NotYet
    /\ response = NotYet
    /\ response' = HandleDecoded(decoded, request, meeting_id_0, 0)
    /\ UNCHANGED <<request, decoded, mapping_vars, cache_vars,
                   call_vars, ingest_vars>>

NextDecode == Decode \/ Validate

SpecDecode == InitDecode /\ [][NextDecode]_vars

(***************************************************************************)
(* Properties of the decoding specification                                *)
(***************************************************************************)
(* C1 as stated: decoding the base64 of the gzip of [16,1, 10,33,10,31,    *)
(* "spaces/ABC/devices/1",16, 24,5,50,4,"test", 24,0,32,1,45,0, msgid,     *)
(* version] returns device_id = "spaces/ABC/devices/1", text = "test",     *)
(* message_id = msgid and version = version, for every msgid and version.  *)
C1_ScenarioAsStated ==
    (request.kind = "scenario" /\ request.device_id = id_spaces_ABC
        /\ decoded # NotYet)
    => /\ ~decoded.raised
       /\ decoded.value.device_id = id_spaces_ABC
       /\ decoded.value.text = text_test
       /\ decoded.value.message_id = request.message_id
       /\ decoded.value.version = request.version

(* C1: decoding the base64 of the gzip of [10,33,10,31, a 31-byte id       *)
(* "spaces/<space>/devices/<n>", 16, 24,5,50,4,"test", 24,0,32,1,45,0,     *)
(* msgid, version] returns device_id = that id, text = "test",             *)
(* message_id = msgid and version = version, a version of 0 coming back    *)
(* as 1, for every msgid and version.                                      *)
C1_NestedScenario ==
    (request.kind = "nested" /\ decoded # NotYet)
    => /\ ~decoded.raised
       /\ decoded.value.device_id = request.device_id
       /\ decoded.value.text = text_test
       /\ decoded.value.message_id = request.message_id
       /\ decoded.value.version =
             IF request.version = U32(0) THEN U32(1) ELSE request.version

(* a nested-scenario buffer decoded, with a message id and a version that  *)
(* differ                                                                  *)
C1_Witness ==
    /\ request.kind = "nested"
    /\ request.message_id = <<258, 772>>
    /\ request.version = <<65535, 65535>>
    /\ decoded # NotYet
    /\ ~decoded.raised
    /\ decoded.value.message_id = <<258, 772>>
    /\ decoded.value.version = <<65535, 65535>>

(* C5: for every input blob, decode either returns an event or raises      *)
(* ValueError at the base64, decompression or structure stage, never       *)
(* another exception, and the handler answers a blob that failed to decode *)
(* with success = false, never with an internal error.                     *)
C5_OnlyDecodeErrors ==
    /\ (decoded # NotYet /\ decoded.raised)
       => /\ decoded.exc = "ValueError"
          /\ decoded.at \in {"base64", "base64_empty", "gzip_too_short", "gzip",
                             "gzip_offset3", "protobuf_too_short", "start_marker"}
    /\ (decoded # NotYet /\ decoded.raised /\ response # NotYet)
       => /\ response.kind = "response"
          /\ response.success = FALSE

(* C6 as stated: every event a successful decode returns has non-empty     *)
(* text.                                                                   *)
C6_DecodedTextNonEmpty ==
    (decoded # NotYet /\ ~decoded.raised) => decoded.value.text # <<>>

(* C6: a decode that returns normally may carry the empty text; the        *)
(* handler then answers success = false, so that every event it carries    *)
(* on with has non-empty text.                                             *)
C6_AcceptedTextNonEmpty ==
    /\ (response # NotYet /\ response.kind = "event")
       => response.decoded_data.text # <<>>
    /\ (response # NotYet /\ ~decoded.raised /\ decoded.value.text = <<>>)
       => /\ response.kind = "response"
          /\ response.success = FALSE

(* a decode that returned the empty text, rejected by the handler *)
C6_Witness ==
    /\ decoded # NotYet
    /\ ~decoded.raised
    /\ decoded.value.text = <<>>
    /\ decoded.value.device_id # <<>>
    /\ response # NotYet
    /\ response.kind = "response"
    /\ response.success = FALSE

(* C9: for every buffer in the marker layout (start marker, device-id      *)
(* block, timestamp+text block, message-id pattern with msgid and version, *)
(* lang-id pattern with one byte) decode returns exactly the injected      *)
(* device_id, text, message_id, version and lang_id, message_id = 0 and    *)
(* version = 0 included.                                                   *)
C9_RoundTrip ==
    (request.kind = "layout" /\ decoded # NotYet)
    => /\ ~decoded.raised
       /\ decoded.value.device_id = request.device_id
       /\ decoded.value.text = request.text
       /\ decoded.value.message_id = request.message_id
       /\ decoded.value.version = request.version
       /\ decoded.value.lang_id = request.lang_id

(* C10: a well-formed buffer cut at any offset before its start marker     *)
(* makes decode raise the structure error; decode returns no event for it. *)
C10_TruncatedFails ==
    (request.kind = "truncated" /\ decoded # NotYet)
    => /\ decoded.raised
       /\ decoded.exc = "ValueError"
       /\ decoded.at \in {"protobuf_too_short", "start_marker"}

(* a cut of at least 10 bytes, refused for want of a start marker *)
C10_Witness ==
    /\ request.kind = "truncated"
    /\ Len(request.buffer) >= 10
    /\ decoded # NotYet
    /\ decoded.raised
    /\ decoded.at = "start_marker"

(***************************************************************************)
(* Mapping specification: the calls of MappingService, in any order, and   *)
(* the passing of time                                                     *)
(***************************************************************************)
(* the clock advances MappingTick hours at a time, MaxMappingTicks times *)
MappingTick == 13
MaxMappingTicks == 2

meeting_1 == <<109, 49>>
meeting_2 == <<109, 50>>
Meetings == {meeting_1, meeting_2}

(* "spaces/s/devices/7", "s/devices/7", "7", "\x01" + "7", "x" *)
id_full == <<115, 112, 97, 99, 101, 115, 47, 115, 47, 100, 101, 118, 105, 99, 101, 115, 47, 55>>
id_path == <<115, 47, 100, 101, 118, 105, 99, 101, 115, 47, 55>>
id_num == <<55>>
id_ctl == <<1, 55>>
id_x == <<120>>

name_al == <<65, 108>>
name_bo == <<66, 111>>

Names == {name_al, name_bo}
LookupIds == {id_full, id_path, id_num, id_ctl, id_x}

(* the save_mapping calls made: <<meeting_id, device_id, variants>>, each   *)
(* with either name; one variant list holds an empty string                 *)
SaveCalls ==
    {<<meeting_1, id_num, <<>> >>,
     <<meeting_1, id_full, <<>> >>,
     <<meeting_1, id_full, <<id_num>> >>,
     <<meeting_1, id_full, << <<>>, id_path, id_x >> >>,
     <<meeting_2, id_num, <<id_x>> >>}

InitMapping ==
    MappingIdle /\ DecodeIdle /\ CacheIdle /\ CallIdle /\ IngestIdle

SaveMapping ==
    \E c \in SaveCalls, n \in Names :
        /\ save_mapping(c[1], c[2], n, c[3])
        /\ last' = [op |-> "save_mapping", meeting_id |-> c[1],
                    device_id |-> c[2], name |-> n, variants |-> c[3]]
        /\ result' = NotYet
        /\ UNCHANGED <<now, decode_vars, cache_vars,
                   call_vars, ingest_vars>>

FindName ==
    \E m \in Meetings, d \in LookupIds :
        /\ result' = [meeting_id |-> m, device_id |-> d,
                      name |-> find_name_by_device_id(m, d), at |-> now]
        /\ UNCHANGED <<_mapping, _index, _cleanup_times, now, last,
                       decode_vars, cache_vars,
                   call_vars, ingest_vars>>

ClearMapping ==
    \E m \in Meetings :
        /\ clear_mapping(m)
        /\ last' = [op |-> "clear_mapping", meeting_id |-> m]
        /\ result' = NotYet
        /\ UNCHANGED <<now, decode_vars, cache_vars,
                   call_vars, ingest_vars>>

(* the sweep: a method of the service that nothing in the application      *)
(* calls or schedules                                                      *)
CleanupExpired ==
    /\ mapping_cleanup_expired
    /\ last' = [op |-> "cleanup_expired"]
    /\ result' = NotYet
    /\ UNCHANGED <<now, decode_vars, cache_vars,
                   call_vars, ingest_vars>>

TickMapping ==
    /\ now + MappingTick <= MaxMappingTicks * MappingTick
    /\ now' = now + MappingTick
    /\ UNCHANGED <<_mapping, _index, _cleanup_times, last, result,
                   decode_vars, cache_vars,
                   call_vars, ingest_vars>>

NextMapping ==
    SaveMapping \/ FindName \/ ClearMapping \/ CleanupExpired \/ TickMapping

SpecMapping == InitMapping /\ [][NextMapping]_vars

(***************************************************************************)
(* Cache specification: the calls of MessageCacheService, in any order,    *)
(* and the passing of time, one hour at a time                             *)
(***************************************************************************)
MaxCacheClock == 2

text_a == <<97>>
text_b == <<98>>

(* the keys used: <<meeting_id, message_id, device_id>> *)
CacheKeys ==
    {<<meeting_1, None, id_num>>, <<meeting_1, U32(1), id_num>>,
     <<meeting_2, U32(1), id_num>>}
(* the contents used: <<text, version>> *)
CacheContents == {<<text_a, U32(1)>>, <<text_b, U32(1)>>, <<text_a, U32(2)>>}

InitCache ==
    CacheIdle /\ MappingIdle /\ DecodeIdle /\ CallIdle /\ IngestIdle

IsDuplicate ==
    \E k \in CacheKeys, c \in CacheContents :
        /\ result' = [meeting_id |-> k[1], message_id |-> k[2],
                      device_id |-> k[3], text |-> c[1], version |-> c[2],
                      at |-> now,
                      duplicate |-> is_duplicate(k[1], k[2], k[3], c[1], c[2])]
        /\ _cache' = is_duplicate_cache(k[1], k[2], k[3])
        /\ evicted' = IF is_expired(k[1], get_cache_key(k[1], k[2], k[3]))
                      THEN evicted \cup {k}
                      ELSE evicted
        /\ UNCHANGED <<recorded, now, last, _mapping, _index, _cleanup_times,
                       decode_vars,
                   call_vars, ingest_vars>>

CacheMessage ==
    \E k \in CacheKeys, c \in CacheContents :
        /\ _cache' = cache_message(k[1], k[2], k[3], c[1], c[2])
        /\ recorded' = Put(recorded, k,
                           [text |-> c[1], version |-> c[2], at |-> now])
        /\ evicted' = evicted \ {k}
        /\ result' = NotYet
        /\ UNCHANGED <<now, last, _mapping, _index, _cleanup_times, decode_vars,
                   call_vars, ingest_vars>>

(* the sweep: a method of the service that nothing in the application      *)
(* calls or schedules                                                      *)
CleanupCache ==
    /\ _cache' = cache_cleanup_expired
    /\ UNCHANGED <<recorded, evicted, result, now, last, _mapping, _index,
                   _cleanup_times, decode_vars,
                   call_vars, ingest_vars>>

TickCache ==
    /\ now + 1 <= MaxCacheClock
    /\ now' = now + 1
    /\ UNCHANGED <<cache_vars, result, last, _mapping, _index, _cleanup_times,
                   decode_vars,
                   call_vars, ingest_vars>>

NextCache == IsDuplicate \/ CacheMessage \/ CleanupCache \/ TickCache

SpecCache == InitCache /\ [][NextCache]_vars

(***************************************************************************)
(* Properties of the mapping specification                                 *)
(***************************************************************************)
(* the lookup was made in the meeting of the latest call, since that call *)
LookedUpAfter(op) ==
    /\ last # NotYet
    /\ last.op = op
    /\ result # NotYet
    /\ result.meeting_id = last.meeting_id

(* the non-empty variants of the latest save_mapping call *)
LastVariants == {v \in SeqToSet(last.variants) : v # <<>>}

(* C3 as stated: in any reachable state, right after saveMapping(meeting,  *)
(* A, name, variants) every resolve(meeting, A) and every resolve(meeting, *)
(* B) for a non-empty B in variants returns name; after clear(meeting)     *)
(* both return None.                                                       *)
C3_AsStated ==
    /\ (LookedUpAfter("save_mapping")
            /\ result.device_id \in {last.device_id} \cup LastVariants)
       => result.name = last.name
    /\ (LookedUpAfter("clear_mapping")) => result.name = None

(* C3: right after saveMapping(meeting, A, name, variants), resolve(A)     *)
(* returns name, and resolve(B) returns name for every non-empty variant B *)
(* that the earlier steps of the lookup leave to the index: B is not the   *)
(* canonical id of another entry, has no leading control character and     *)
(* contains no "/"; after clear(meeting) every resolve returns None.       *)
C3_SavedThenResolved ==
    /\ (LookedUpAfter("save_mapping") /\ result.device_id = last.device_id)
       => result.name = last.name
    /\ (LookedUpAfter("save_mapping")
            /\ result.device_id \in LastVariants
            /\ result.device_id \notin DOMAIN _mapping[last.meeting_id]
            /\ _clean_device_id(result.device_id) = result.device_id
            /\ ~Contains(result.device_id, <<47>>))
       => result.name = last.name
    /\ (LookedUpAfter("clear_mapping")) => result.name = None

(* a variant resolved to the name just saved, while the meeting holds      *)
(* another entry                                                           *)
C3_Witness ==
    /\ LookedUpAfter("save_mapping")
    /\ result.device_id \in LastVariants
    /\ result.device_id # last.device_id
    /\ result.name = last.name
    /\ Cardinality(DOMAIN _mapping[last.meeting_id]) = 2

(* C7: resolve never returns a name from a mapping whose TTL has run out:  *)
(* once more than 24 hours have passed since the last saveMapping of the   *)
(* meeting, resolve returns None for every device id, sweep or no sweep.   *)
C7_NoExpiredName ==
    (result # NotYet /\ result.name # None)
    => ~(_cleanup_times[result.meeting_id] < result.at)

(* C8: a resolve never sees an entry written with only some, or none, of   *)
(* its variants indexed: in every state every entry's canonical id and     *)
(* every non-empty variant is a key of the meeting's index, and right      *)
(* after a save they all lead to the saved entry.                          *)
C8_IndexComplete ==
    /\ \A m \in DOMAIN _mapping :
          /\ m \in DOMAIN _index
          /\ \A d \in DOMAIN _mapping[m] :
                /\ d # <<>> => d \in DOMAIN _index[m]
                /\ \A v \in SeqToSet(_mapping[m][d].variants) :
                      v # <<>> => v \in DOMAIN _index[m]
    /\ (last # NotYet /\ last.op = "save_mapping")
       => /\ _mapping[last.meeting_id][last.device_id].name = last.name
          /\ \A v \in {last.device_id} \cup LastVariants :
                _index[last.meeting_id][v] = last.device_id

(* a lookup made after a save with two variants, in a meeting with two     *)
(* entries                                                                 *)
C8_Witness ==
    /\ LookedUpAfter("save_mapping")
    /\ Cardinality(LastVariants) = 2
    /\ Cardinality(DOMAIN _mapping[last.meeting_id]) = 2
    /\ result.name # None

(***************************************************************************)
(* Properties of the cache specification                                   *)
(***************************************************************************)
(* the key the latest is_duplicate call was made with *)
ResultKey == <<result.meeting_id, result.message_id, result.device_id>>

(* whether the cache holds an entry for <<meeting, message id, device id>> *)
InCache(k) ==
    /\ k[1] \in DOMAIN _cache
    /\ get_cache_key(k[1], k[2], k[3]) \in DOMAIN _cache[k[1]]

(* C2: isDuplicate returns true if and only if the most recent record for  *)
(* the same (meeting, messageId, deviceId) was made at most one hour       *)
(* earlier with the same text and the same version.                        *)
C2_DuplicateIff ==
    result # NotYet
    => result.duplicate =
          (/\ ResultKey \in DOMAIN recorded
           /\ result.at - recorded[ResultKey].at <= cache_ttl_hours
           /\ recorded[ResultKey].text = result.text
           /\ recorded[ResultKey].version = result.version)

(* a duplicate reported exactly one hour after the record *)
C2_Witness ==
    /\ result # NotYet
    /\ result.duplicate
    /\ result.at = recorded[ResultKey].at + cache_ttl_hours

(* C4: isDuplicate on a key whose entry was recorded more than one hour    *)
(* ago returns false and removes the entry, and the entry stays absent     *)
(* until the key is recorded again.                                        *)
C4_ExpiredEvicted ==
    /\ (result # NotYet /\ ResultKey \in DOMAIN recorded)
       => (recorded[ResultKey].at + cache_ttl_hours < result.at
           => ~result.duplicate /\ ~InCache(ResultKey))
    /\ \A k \in evicted : ~InCache(k)

(* an expired entry removed by a lookup while its meeting keeps another    *)
(* entry                                                                   *)
C4_Witness ==
    /\ result # NotYet
    /\ ResultKey \in evicted
    /\ ~result.duplicate
    /\ recorded[ResultKey].at + cache_ttl_hours < result.at
    /\ result.meeting_id \in DOMAIN _cache

(***************************************************************************)
(* Validity specification: _is_valid_device_id applied to candidate        *)
(* strings of the lengths around its thresholds                            *)
(***************************************************************************)
MaxCandidateLen == 31
MaxSpaces == 5

(* "spaces/X/devices/123" *)
id_spaces_X == spaces_ \o <<88>> \o _devices_ \o <<49, 50, 51>>

(* U+4F1A U+8B70 U+5BA4 "A" and its UTF-8 encoding *)
id_cjk == <<20250, 35696, 23460, 65>>
utf8_cjk == <<228, 188, 154, 232, 173, 176, 229, 174, 164, 65>>

(* a candidate of n characters: letters a..g in turn, with k spaces at the *)
(* front, at the back, or one in every three characters                    *)
Candidate(n, k, layout) ==
    [i \in 1..n |->
        IF \/ layout = "front" /\ i <= k
           \/ layout = "back" /\ i > n - k
           \/ layout = "spread" /\ i % 3 = 0 /\ i <= 3 * k
        THEN 32
        ELSE 97 + (i % 7)]

Candidates ==
    {id_spaces_X, id_cjk}
    \cup {Candidate(n, k, layout) :
             n \in 19..MaxCandidateLen, k \in 0..MaxSpaces,
             layout \in {"front", "back", "spread"}}

InitValid ==
    /\ call \in {[fn |-> "_is_valid_device_id", device_id |-> c] :
                   c \in Candidates}
    /\ returned = NotYet
    /\ DecodeIdle
    /\ MappingIdle
    /\ CacheIdle
    /\ IngestIdle

IsValidDeviceId ==
    /\ returned = NotYet
    /\ returned' = [value |-> _is_valid_device_id(call.device_id)]
    /\ UNCHANGED <<call, decode_vars, mapping_vars, cache_vars, ingest_vars>>

NextValid == IsValidDeviceId

SpecValid == InitValid /\ [][NextValid]_vars

(* C11: a string longer than 20 characters of which more than one tenth   *)
(* are spaces is not a valid device id, and "spaces/X/devices/123" is one  *)
C11_SpacesRejected ==
    returned # NotYet =>
        LET device_id == call.device_id
            n == Len(device_id)
        IN  /\ (n > 20 /\ 10 * CountIn(device_id, {32}) > n)
                    => returned.value = FALSE
            /\ device_id = id_spaces_X => returned.value = TRUE

(* a string of 21 characters with 3 leading spaces, which only the share   *)
(* of spaces tells from an id, was rejected                                *)
C11_Witness ==
    /\ returned # NotYet
    /\ call.device_id = Candidate(21, 3, "front")
    /\ returned.value = FALSE

(***************************************************************************)
(* Resolution specification: the order of the lookup strategies of         *)
(* find_name_by_device_id, on one meeting whose entries share keys         *)
(***************************************************************************)
(* "spaces/s/7", "s/7", "\x01" + "s/7" *)
id_s7 == <<115, 47, 55>>
id_spaces_s7 == spaces_ \o id_s7
id_ctl_s7 == <<1>> \o id_s7

name_cy == <<67, 121>>

(* the save_mapping calls made on meeting_1: <<device_id, name, variants>> *)
ResolveSaveCalls ==
    {<<id_num, name_al, <<>> >>,
     <<id_s7, name_al, <<>> >>,
     <<id_path, name_cy, <<>> >>,
     <<id_x, name_bo, <<id_spaces_s7, id_path, id_ctl_s7, id_full>> >>,
     <<id_x, name_bo, <<id_num>> >>}

ResolveLookupIds ==
    {id_spaces_s7, id_path, id_ctl_s7, id_full, id_num, id_s7}

InitResolve ==
    MappingIdle /\ DecodeIdle /\ CacheIdle /\ CallIdle /\ IngestIdle

ResolveSave ==
    \E c \in ResolveSaveCalls :
        /\ save_mapping(meeting_1, c[1], c[2], c[3])
        /\ last' = [op |-> "save_mapping", meeting_id |-> meeting_1,
                    device_id |-> c[1], name |-> c[2], variants |-> c[3]]
        /\ result' = NotYet
        /\ UNCHANGED <<now, decode_vars, cache_vars, call_vars, ingest_vars>>

ResolveFind ==
    \E d \in ResolveLookupIds :
        /\ result' = [meeting_id |-> meeting_1, device_id |-> d,
                      name |-> find_name_by_device_id(meeting_1, d), at |-> now]
        /\ UNCHANGED <<_mapping, _index, _cleanup_times, now, last,
                       decode_vars, cache_vars, call_vars, ingest_vars>>

ResolveClear ==
    /\ meeting_1 \in DOMAIN _mapping
    /\ clear_mapping(meeting_1)
    /\ last' = [op |-> "clear_mapping", meeting_id |-> meeting_1]
    /\ result' = NotYet
    /\ UNCHANGED <<now, decode_vars, cache_vars, call_vars, ingest_vars>>

NextResolve == ResolveSave \/ ResolveFind \/ ResolveClear

SpecResolve == InitResolve /\ [][NextResolve]_vars

(* the lookup just made was of an id that is no canonical id of its        *)
(* meeting and is a key of the meeting's index                             *)
RawKeyLookedUp ==
    /\ result # NotYet
    /\ result.meeting_id \in DOMAIN _mapping
    /\ result.device_id \notin DOMAIN _mapping[result.meeting_id]
    /\ result.device_id \in DOMAIN _index[result.meeting_id]

(* the structural substrings of an id in the order the lookup tries them:  *)
(* the part after "devices/", the part after "spaces/", which is tried     *)
(* only for an id that contains "devices/", the part after the last "/"    *)
TriedParts(device_id) ==
    (IF Contains(device_id, devices_)
     THEN <<SplitLast(device_id, devices_)>> ELSE <<>>)
    \o (IF Contains(device_id, devices_) /\ Contains(device_id, spaces_)
        THEN <<SplitLast(device_id, spaces_)>> ELSE <<>>)
    \o (IF Contains(device_id, <<47>>)
        THEN <<SplitLast(device_id, <<47>>)>> ELSE <<>>)

(* C12 as stated: a lookup of an id that is no canonical id, is an index   *)
(* key of entry Y, and has a structural substring that is an index key of  *)
(* another entry X, returns the name of such an X                          *)
C12_AsStated ==
    RawKeyLookedUp =>
        LET mapping == _mapping[result.meeting_id]
            index == _index[result.meeting_id]
            others == {index[part] :
                         part \in SeqToSet(TriedParts(result.device_id))
                                    \cap DOMAIN index}
                      \ {index[result.device_id]}
        IN  others # {} => result.name \in {mapping[x].name : x \in others}

(* C12: a lookup of an id that is no canonical id, has no leading control  *)
(* character, is an index key, and has among the substrings the lookup     *)
(* tries one that is an index key, returns the name of the entry that owns *)
(* the first such substring, whichever entry owns the id itself            *)
C12_FirstPartWins ==
    RawKeyLookedUp =>
        LET mapping == _mapping[result.meeting_id]
            index == _index[result.meeting_id]
            tried == TriedParts(result.device_id)
            hits == {i \in 1..Len(tried) : tried[i] \in DOMAIN index}
            first == CHOOSE i \in hits : \A j \in hits : i <= j
        IN  (_clean_device_id(result.device_id) = result.device_id /\ hits # {})
                => result.name = mapping[index[tried[first]]].name

(* "s/devices/7", a key of the entry of "x" (Bo), was looked up while "7"  *)
(* was the entry of Al, and Al was returned                                *)
C12_Witness ==
    /\ RawKeyLookedUp
    /\ result.device_id = id_path
    /\ _index[meeting_1][id_path] = id_x
    /\ id_num \in DOMAIN _index[meeting_1]
    /\ _index[meeting_1][id_num] = id_num
    /\ result.name = name_al

(***************************************************************************)
(* Properties of the decoding specification: message id and version        *)
(***************************************************************************)
(* pattern_end of _extract_message_id where it reads the message id: the   *)
(* offset after the first of MESSAGE_ID_PATTERNS, in the listed order,     *)
(* that occurs in data at or after offset from with at least 4 bytes after *)
(* it; -1 when there is none                                               *)
PatternEnd(data, from) ==
    With(First(1, Len(MESSAGE_ID_PATTERNS),
               LAMBDA k :
                  With(_find_pattern(data, MESSAGE_ID_PATTERNS[k], from),
                       LAMBDA idx :
                          idx # NoneInt
                          /\ idx + Len(MESSAGE_ID_PATTERNS[k]) + 4 <= Len(data))),
         LAMBDA k :
            IF k < 0 THEN -1
            ELSE _find_pattern(data, MESSAGE_ID_PATTERNS[k], from)
                 + Len(MESSAGE_ID_PATTERNS[k]))

(* C20: when a message-id pattern occurs at or after the end of the device *)
(* id and 8 bytes follow it, the decoded message_id is the little-endian   *)
(* uint32 of the first 4 of them and the decoded version the little-endian *)
(* uint32 of the next 4, for every value of those bytes                    *)
C20_PatternValues ==
    (decoded # NotYet /\ ~decoded.raised
     /\ request.kind \in {"scenario", "nested", "layout"})
    => LET data == request.buffer
           device_end == _extract_device_id(data, _find_data_start(data))[2]
           pattern_end == PatternEnd(data, device_end)
       IN  (pattern_end >= 0 /\ pattern_end + 8 <= Len(data))
           => /\ decoded.value.message_id
                    = unpack_I(Slice(data, pattern_end, pattern_end + 4))
              /\ decoded.value.version
                    = unpack_I(Slice(data, pattern_end + 4, pattern_end + 8))

(***************************************************************************)
(* Properties of the mapping specification: the index and the sweep        *)
(***************************************************************************)
(* the keys an entry stored under device_id stands for: its canonical id   *)
(* and its variants, the empty string left out                             *)
KeysOf(device_id, entry) ==
    ({device_id} \cup SeqToSet(entry.variants)) \ {<<>>}

(* C17: the index of a meeting holds exactly the canonical ids and the     *)
(* non-empty variants stored in the meeting's entries, and each key leads  *)
(* to an entry that is stored under that key or lists it as a variant      *)
C17_IndexExact ==
    \A m \in DOMAIN _mapping :
        /\ DOMAIN _index[m]
              = UNION {KeysOf(d, _mapping[m][d]) : d \in DOMAIN _mapping[m]}
        /\ \A k \in DOMAIN _index[m] :
              /\ _index[m][k] \in DOMAIN _mapping[m]
              /\ k \in KeysOf(_index[m][k], _mapping[m][_index[m][k]])

(***************************************************************************)
(* Sweep specification: save_mapping and cleanup_expired on two meetings,  *)
(* the clock advancing by half the time to live                            *)
(***************************************************************************)
MaxSweepTicks == 3

(* the save_mapping calls made: <<meeting_id, device_id, variants>> *)
SweepSaveCalls ==
    {<<m, d, v>> : m \in Meetings, d \in {id_num, id_full},
                   v \in {<<>>, <<id_x>>}}

InitSweep ==
    MappingIdle /\ DecodeIdle /\ CacheIdle /\ CallIdle /\ IngestIdle

SweepSave ==
    \E c \in SweepSaveCalls :
        /\ save_mapping(c[1], c[2], name_al, c[3])
        /\ last' = [op |-> "save_mapping", meeting_id |-> c[1],
                    device_id |-> c[2], name |-> name_al, variants |-> c[3]]
        /\ result' = NotYet
        /\ UNCHANGED <<now, decode_vars, cache_vars, call_vars, ingest_vars>>

Sweep ==
    /\ mapping_cleanup_expired
    /\ last' = [op |-> "cleanup_expired",
                removed |-> DOMAIN _mapping \ DOMAIN _mapping']
    /\ result' = NotYet
    /\ UNCHANGED <<now, decode_vars, cache_vars, call_vars, ingest_vars>>

SweepTick ==
    /\ now + ttl_hours \div 2 <= MaxSweepTicks * (ttl_hours \div 2)
    /\ now' = now + ttl_hours \div 2
    /\ UNCHANGED <<_mapping, _index, _cleanup_times, last, result,
                   decode_vars, cache_vars, call_vars, ingest_vars>>

NextSweep == SweepSave \/ Sweep \/ SweepTick

SpecSweep == InitSweep /\ [][NextSweep]_vars

(* the time of the latest save_mapping to any entry of a meeting *)
LastSaved(m) ==
    CHOOSE t \in {_mapping[m][d].updated_at : d \in DOMAIN _mapping[m]} :
        \A d \in DOMAIN _mapping[m] : _mapping[m][d].updated_at <= t

(* C18: a sweep removes the entries, the index and the cleanup time of     *)
(* every meeting whose latest save_mapping is more than 24 hours old, all  *)
(* three together, and leaves every other meeting as it is                 *)
C18_SweepFrame ==
    [][(last' # NotYet /\ last'.op = "cleanup_expired" /\ now' = now)
       => /\ DOMAIN _index = DOMAIN _mapping
          /\ DOMAIN _cleanup_times = DOMAIN _mapping
          /\ \A m \in DOMAIN _mapping :
                IF now - LastSaved(m) > ttl_hours
                THEN /\ m \notin DOMAIN _mapping'
                     /\ m \notin DOMAIN _index'
                     /\ m \notin DOMAIN _cleanup_times'
                ELSE /\ m \in DOMAIN _mapping' /\ _mapping'[m] = _mapping[m]
                     /\ m \in DOMAIN _index' /\ _index'[m] = _index[m]
                     /\ m \in DOMAIN _cleanup_times'
                     /\ _cleanup_times'[m] = _cleanup_times[m]
          /\ DOMAIN _mapping' \subseteq DOMAIN _mapping]_vars

(* a sweep removed meeting_1 and kept meeting_2, whose latest save was     *)
(* exactly 24 hours before                                                 *)
C18_Witness ==
    /\ last # NotYet
    /\ last.op = "cleanup_expired"
    /\ last.removed = {meeting_1}
    /\ meeting_2 \in DOMAIN _mapping
    /\ now - LastSaved(meeting_2) = ttl_hours

(***************************************************************************)
(* Cache specification with fairness: time passes and requests keep being  *)
(* handled, so is_duplicate and cache_message keep being called; nothing   *)
(* in the application calls or schedules cleanup_expired, which is left    *)
(* without fairness                                                        *)
(***************************************************************************)
SpecCacheLive ==
    /\ SpecCache
    /\ WF_vars(TickCache)
    /\ WF_vars(IsDuplicate)
    /\ WF_vars(CacheMessage)

(* C19: an entry whose time to live has elapsed is eventually gone from    *)
(* the cache, whether or not its key is looked up again                    *)
C19_EventuallyEvicted ==
    \A k \in CacheKeys :
        is_expired(k[1], get_cache_key(k[1], k[2], k[3]))
            ~> ~is_expired(k[1], get_cache_key(k[1], k[2], k[3]))

(***************************************************************************)
(* The database, as the handlers see it.  The handlers of one process      *)
(* share the two services; the database is outside the process, and what   *)
(* a call awaited on the session returns or raises is an input of the      *)
(* handler: the meeting the lookup finds, and db.commit(),                 *)
(* db.refresh(segment) and db.rollback() returning or raising              *)
(***************************************************************************)
(* user.id of the user who makes the requests: "u1" *)
user_id == <<117, 49>>

(* f"{meeting_id}-{user.id}" *)
base_session_id(meeting_id) == meeting_id \o <<45>> \o user_id

(* "-1970-01-02": the suffix of a meeting opened a day after the first *)
date_suffix == <<45, 49, 57, 55, 48, 45, 48, 49, 45, 48, 50>>

(* select(Meeting).where(Meeting.unique_session_id.like(f"{base}%"))       *)
(* .order_by(desc(Meeting.created_at)).limit(1), scalar_one_or_none():     *)
(* the unique_session_id of the meeting it can return, or None             *)
LatestMeetings(meeting_id) ==
    {None, base_session_id(meeting_id),
     base_session_id(meeting_id) \o date_suffix}

(***************************************************************************)
(* POST /{meeting_id}/raw-transcript (api/meetings.py): the handler after  *)
(* the validation.  The handler awaits the database at the meeting lookup  *)
(* at its start, at db.commit(), at db.refresh(segment) and, in the except *)
(* clauses, at db.rollback(); what lies between two awaits runs without    *)
(* interruption.                                                           *)
(***************************************************************************)
(* the cleaning with every character of the decoded id kept *)
CleanedDeviceId_unfiltered(device_id) ==
    With(Slice(device_id, 0, 500), LAMBDA clean :
    With(Split(clean, <<47>>), LAMBDA parts :
    With(First(1, Len(parts), LAMBDA i : parts[i] = devices), LAMBDA devices_idx :
        IF Len(parts) >= 3 /\ devices_idx >= 1 /\ devices_idx + 1 <= Len(parts)
        THEN With(parts[devices_idx + 1], LAMBDA device_num :
             With(SelectSeq(device_num, LAMBDA c : c \notin {47, 95, 45, 46}),
                  LAMBDA bare :
                IF \/ Len(device_num) > 50
                   \/ bare = <<>>
                   \/ \E i \in 1..Len(bare) : ~IsAlnum(bare[i])
                THEN clean
                ELSE IF Len(Join(SubSeq(parts, devices_idx + 2, Len(parts)),
                                 <<47>>)) > 10
                THEN Join(SubSeq(parts, 1, devices_idx + 1), <<47>>)
                ELSE clean))
        ELSE clean)))

(* the device id as the handler cleans it: unprintable characters removed, *)
(* cut after "devices/<id>" when more than 10 characters follow, at most   *)
(* 500 characters                                                          *)
CleanedDeviceId(device_id) ==
    With(Slice(SelectSeq(device_id,
                         LAMBDA c : IsPrintable(c) \/ c \in PathChars), 0, 500),
         LAMBDA clean :
    With(Split(clean, <<47>>), LAMBDA parts :
    With(First(1, Len(parts), LAMBDA i : parts[i] = devices), LAMBDA devices_idx :
        IF Len(parts) >= 3 /\ devices_idx >= 1 /\ devices_idx + 1 <= Len(parts)
        THEN With(parts[devices_idx + 1], LAMBDA device_num :
             With(SelectSeq(device_num, LAMBDA c : c \notin {47, 95, 45, 46}),
                  LAMBDA bare :
                IF \/ Len(device_num) > 50
                   \/ bare = <<>>
                   \/ \E i \in 1..Len(bare) : ~IsAlnum(bare[i])
                THEN clean
                ELSE IF Len(Join(SubSeq(parts, devices_idx + 2, Len(parts)),
                                 <<47>>)) > 10
                THEN Join(SubSeq(parts, 1, devices_idx + 1), <<47>>)
                ELSE clean))
        ELSE clean)))

(* the values the handler gives TranscriptSegment(...), but for timestamp; *)
(* id and created_at are set by the database                               *)
Segment(frame) ==
    [session_id |-> frame.session_id,
     google_meet_user_id |-> frame.device_id,
     speaker_username |-> frame.username,
     text |-> frame.text,
     version |-> frame.version,
     message_id |-> IF frame.message_id # None /\ frame.message_id # U32(0)
                    THEN str_u32(frame.message_id) ELSE None]

(* the handler from the decoded and validated event to db.commit(): the    *)
(* device id cleaned, the name resolved, the dedup cache read.  The frame  *)
(* holds the handler's local variables; session_id is                      *)
(* meeting.unique_session_id of the meeting found at the start             *)
AcceptEvent(req, decoded_data, device_id_raw, meeting_id, session_id) ==
    With(CleanedDeviceId(decoded_data.device_id), LAMBDA device_id :
    With(find_name_by_device_id(meeting_id, device_id), LAMBDA found :
        IF found = KeyError
        THEN [pc |-> "done", request |-> req,
              response |-> [kind |-> "http_error", status_code |-> 500]]
        ELSE With(is_duplicate(meeting_id, decoded_data.message_id, device_id,
                               decoded_data.text, decoded_data.version),
                  LAMBDA duplicate :
             With([pc |-> IF duplicate THEN "done" ELSE "commit",
                   request |-> req,
                   session_id |-> session_id,
                   device_id_raw |-> device_id_raw,
                   device_id |-> device_id,
                   username |-> Slice(IF found = None \/ found = <<>>
                                      THEN get_unknown_name(device_id)
                                      ELSE found, 0, 200),
                   message_id |-> decoded_data.message_id,
                   text |-> decoded_data.text,
                   version |-> decoded_data.version,
                   is_duplicate |-> duplicate],
                  LAMBDA frame :
                IF duplicate
                THEN frame @@ [response |-> [kind |-> "response",
                                             success |-> TRUE, saved |-> FALSE,
                                             error |-> "none"]]
                ELSE frame))))

(***************************************************************************)
(* Ingestion specification: the requests that reach the two services,      *)
(* handled on one event loop, two at a time: raw-transcript requests,      *)
(* participants synchronised and cleared; a handler that has answered is   *)
(* free for the next request, and time passes.  get_participants only      *)
(* reads the mapping (get_mapping returns a copy) and has no step here     *)
(***************************************************************************)
HandlerIds == {"h1", "h2"}

(* the requests received in a run, and the hours a run lasts *)
MaxIngestRequests == 3
MaxIngestClock == 2

(* [16,1, 50, length, text, ...]: a buffer with text and no device id; the *)
(* message-id pattern with msgid and version follows, or four zero bytes   *)
NoIdBuffer(text, msgid) ==
    <<16, 1, 50, Len(text)>> \o text
    \o (IF msgid = None THEN <<0, 0, 0, 0>>
        ELSE <<24, 0, 32, 1, 45, 0>> \o pack_I(msgid) \o pack_I(U32(2)))

(* a request of the capture client: RawTranscriptRequest.timestamp is      *)
(* optional; timestamp_hash stands for hash(str(timestamp)) % 1000000,     *)
(* which is fixed for the life of the process                              *)
IngestRequest(buffer, timestamp, timestamp_hash) ==
    [raw_data |-> Blob(buffer), session_id |-> session_id_0,
     timestamp |-> timestamp, timestamp_hash |-> timestamp_hash]

(* "\x0e" + "dev1": a device id that passes _is_valid_device_id with a   *)
(* control character in it                                                 *)
id_ctl_dev1 == <<14>> \o id_dev1

IngestRequests ==
    {IngestRequest(LayoutBuffer(98, id_ctl_dev1, text_test, U32(7), U32(2), 0),
                   None, 0),
     IngestRequest(<<16, 1, 98, 4>> \o id_dev1 \o <<0, 0, 0, 0, 0, 0, 0, 0>>,
                   None, 0),
     IngestRequest(NoIdBuffer(text_test, None), None, 0),
     IngestRequest(NoIdBuffer(text_hi_there, None), None, 0),
     IngestRequest(NoIdBuffer(text_test, U32(7)), None, 0)}
    \cup {[raw_data |-> <<65>>, session_id |-> session_id_0,
           timestamp |-> None, timestamp_hash |-> 0]}

(* Column(String(200)) of speaker_username, the length the handler cuts    *)
(* the name to                                                             *)
speaker_username_length == 200

(* a name of one character more than that *)
name_long == [i \in 1..(speaker_username_length + 1) |-> 97]

(* ParticipantMapping(device_id, name, variants) *)
ParticipantMapping(device_id, name, variants) ==
    [device_id |-> device_id, name |-> name, variants |-> variants]

(* request.participants of the sync requests: the participant with a name, *)
(* without one, and with a name of 201 characters next to a second         *)
(* participant                                                             *)
IngestParticipants ==
    {<<ParticipantMapping(id_spaces_ABC, name_al, <<id_dev1>>)>>,
     <<ParticipantMapping(id_spaces_ABC, <<>>, <<id_dev1>>)>>,
     <<ParticipantMapping(id_spaces_ABC, name_long, <<id_dev1>>),
       ParticipantMapping(id_x, name_bo, <<>>)>>}

(* the names the participants are synchronised with *)
IngestNames ==
    UNION {{participants[i].name : i \in DOMAIN participants} :
              participants \in IngestParticipants} \ {<<>>}

(* decoder_service.decode_raw_data(request.raw_data) of every request *)
IngestDecoded == [r \in IngestRequests |-> decode_raw_data(r.raw_data)]

(* the mapping service after the loop of sync_participants:                *)
(* for participant in request.participants: mapping_service.save_mapping(  *)
(* meeting_id, participant.device_id, participant.name,                    *)
(* participant.variants)                                                   *)
RECURSIVE SavedParticipants(_, _, _)
SavedParticipants(service, meeting_id, participants) ==
    IF participants = <<>> THEN service
    ELSE With(Head(participants), LAMBDA participant :
         With(meeting_id \in DOMAIN service._mapping, LAMBDA known :
            SavedParticipants(
                [_mapping |->
                    Put(service._mapping, meeting_id,
                        Put(IF known THEN service._mapping[meeting_id]
                            ELSE EmptyDict,
                            participant.device_id,
                            [name |-> participant.name,
                             variants |-> participant.variants,
                             updated_at |-> now])),
                 _index |->
                    Put(service._index, meeting_id,
                        IndexVariants(IF known THEN service._index[meeting_id]
                                      ELSE EmptyDict,
                                      <<participant.device_id>>
                                         \o participant.variants,
                                      participant.device_id)),
                 _cleanup_times |->
                    Put(service._cleanup_times, meeting_id, now + ttl_hours)],
                meeting_id, Tail(participants))))

InitIngest ==
    /\ handlers = [h \in HandlerIds |-> [pc |-> "idle"]]
    /\ persisted = {}
    /\ received = 0
    /\ MappingIdle
    /\ CacheIdle
    /\ DecodeIdle
    /\ CallIdle

(* handler h is free for the next request, and the run may receive one;    *)
(* of two free handlers h1 takes it                                        *)
Free(h) ==
    /\ handlers[h].pc = "idle"
    /\ h = "h2" => handlers["h1"].pc # "idle"
    /\ received < MaxIngestRequests

(* a raw-transcript request arrives; the handler awaits the lookup of the  *)
(* meeting                                                                 *)
Receive(h) ==
    /\ Free(h)
    /\ \E r \in IngestRequests :
          handlers' = [handlers EXCEPT ![h] =
                          [pc |-> "received",
                           endpoint |-> "decode_raw_transcript",
                           request |-> r]]
    /\ received' = received + 1
    /\ UNCHANGED <<persisted, mapping_vars, cache_vars, decode_vars, call_vars>>

(* the lookup of the meeting returns: 404 without a meeting; otherwise     *)
(* decoding, validation, cleaning, find_name_by_device_id, is_duplicate    *)
(* and db.add(segment), up to db.commit()                                  *)
Process(h) ==
    /\ handlers[h].pc = "received"
    /\ handlers[h].endpoint = "decode_raw_transcript"
    /\ With(handlers[h].request, LAMBDA r :
       \E session_id \in LatestMeetings(meeting_id_0) :
          IF session_id = None
          THEN /\ handlers' = [handlers EXCEPT ![h] =
                                 [pc |-> "done",
                                  endpoint |-> "decode_raw_transcript",
                                  request |-> r,
                                  response |-> [kind |-> "http_error",
                                                status_code |-> 404]]]
               /\ _cache' = _cache
          ELSE With(IngestDecoded[r], LAMBDA outcome :
               With(HandleDecoded(outcome, r, meeting_id_0,
                                  IF r.timestamp = None THEN 0
                                  ELSE r.timestamp_hash),
                    LAMBDA handled :
                  IF handled.kind # "event"
                  THEN /\ handlers' = [handlers EXCEPT ![h] =
                                         [pc |-> "done",
                                          endpoint |-> "decode_raw_transcript",
                                          request |-> r,
                                          response |-> handled]]
                       /\ _cache' = _cache
                  ELSE With(AcceptEvent(r, handled.decoded_data,
                                        outcome.value.device_id, meeting_id_0,
                                        session_id),
                            LAMBDA frame :
                          /\ handlers' = [handlers EXCEPT ![h] =
                                frame @@ [endpoint |-> "decode_raw_transcript"]]
                          /\ _cache' =
                                IF /\ frame.pc = "done"
                                   /\ frame.response.kind = "http_error"
                                THEN _cache
                                ELSE is_duplicate_cache(meeting_id_0,
                                                        frame.message_id,
                                                        frame.device_id)))))
    /\ UNCHANGED <<persisted, received, recorded, evicted, mapping_vars,
                   decode_vars, call_vars>>

(* the lookup of the meeting raises: the clause except Exception of the    *)
(* endpoint answers HTTPException(500)                                     *)
LookupFails(h) ==
    /\ handlers[h].pc = "received"
    /\ handlers' = [handlers EXCEPT ![h] =
          [@ EXCEPT !.pc = "done"] @@
          [response |-> [kind |-> "http_error", status_code |-> 500]]]
    /\ UNCHANGED <<persisted, received, mapping_vars, cache_vars, decode_vars,
                   call_vars>>

(* await db.commit() returns: the segment is stored *)
Commit(h) ==
    /\ handlers[h].pc = "commit"
    /\ persisted' = persisted \cup {Segment(handlers[h])}
    /\ handlers' = [handlers EXCEPT ![h].pc = "refresh"]
    /\ UNCHANGED <<received, mapping_vars, cache_vars, decode_vars, call_vars>>

(* await db.commit() raises: the handler awaits db.rollback() in the       *)
(* except clause of the exception                                          *)
CommitFails(h) ==
    /\ handlers[h].pc = "commit"
    /\ \E exc \in {"IntegrityError", "Exception"} :
          handlers' = [handlers EXCEPT ![h].pc =
                          IF exc = "IntegrityError" THEN "rollback_integrity"
                          ELSE "rollback"]
    /\ UNCHANGED <<persisted, received, mapping_vars, cache_vars, decode_vars,
                   call_vars>>

(* await db.refresh(segment) returns: saved = True and cache_message *)
Refresh(h) ==
    /\ handlers[h].pc = "refresh"
    /\ _cache' = cache_message(meeting_id_0, handlers[h].message_id,
                               handlers[h].device_id, handlers[h].text,
                               handlers[h].version)
    /\ handlers' = [handlers EXCEPT ![h] =
          [@ EXCEPT !.pc = "done"] @@
          [response |-> [kind |-> "response", success |-> TRUE,
                         saved |-> TRUE, error |-> "none"]]]
    /\ UNCHANGED <<persisted, received, recorded, evicted, mapping_vars,
                   decode_vars, call_vars>>

(* await db.refresh(segment) raises: the handler awaits db.rollback() in   *)
(* the except clause of the exception                                      *)
RefreshFails(h) ==
    /\ handlers[h].pc = "refresh"
    /\ \E exc \in {"IntegrityError", "Exception"} :
          handlers' = [handlers EXCEPT ![h].pc =
                          IF exc = "IntegrityError" THEN "rollback_integrity"
                          ELSE "rollback"]
    /\ UNCHANGED <<persisted, received, mapping_vars, cache_vars, decode_vars,
                   call_vars>>

(* await db.rollback() returns: after IntegrityError the answer is         *)
(* saved=False, in the clause except Exception saved=False with the error  *)
Rollback(h) ==
    /\ handlers[h].pc \in {"rollback_integrity", "rollback"}
    /\ handlers' = [handlers EXCEPT ![h] =
          [@ EXCEPT !.pc = "done"] @@
          [response |-> [kind |-> "response", success |-> TRUE,
                         saved |-> FALSE,
                         error |-> IF handlers[h].pc = "rollback_integrity"
                                   THEN "none" ELSE "Failed to save segment"]]]
    /\ UNCHANGED <<persisted, received, mapping_vars, cache_vars, decode_vars,
                   call_vars>>

(* await db.rollback() raises: after IntegrityError the clause except      *)
(* Exception takes over and awaits db.rollback() again; from there the     *)
(* exception leaves the handler as HTTPException(500)                      *)
RollbackFails(h) ==
    /\ handlers[h].pc \in {"rollback_integrity", "rollback"}
    /\ handlers' = [handlers EXCEPT ![h] =
          IF handlers[h].pc = "rollback_integrity"
          THEN [@ EXCEPT !.pc = "rollback"]
          ELSE [@ EXCEPT !.pc = "done"] @@
               [response |-> [kind |-> "http_error", status_code |-> 500]]]
    /\ UNCHANGED <<persisted, received, mapping_vars, cache_vars, decode_vars,
                   call_vars>>

(* a sync request arrives; sync_participants awaits the lookup of the      *)
(* meeting                                                                 *)
ReceiveSync(h) ==
    /\ Free(h)
    /\ \E participants \in IngestParticipants :
          handlers' = [handlers EXCEPT ![h] =
                          [pc |-> "received", endpoint |-> "sync_participants",
                           participants |-> participants]]
    /\ received' = received + 1
    /\ UNCHANGED <<persisted, mapping_vars, cache_vars, decode_vars, call_vars>>

(* the lookup of sync_participants returns: 404 without a meeting;         *)
(* otherwise save_mapping for every participant of the request             *)
SyncParticipants(h) ==
    /\ handlers[h].pc = "received"
    /\ handlers[h].endpoint = "sync_participants"
    /\ \E session_id \in LatestMeetings(meeting_id_0) :
          IF session_id = None
          THEN /\ handlers' = [handlers EXCEPT ![h] =
                     [@ EXCEPT !.pc = "done"] @@
                     [response |-> [kind |-> "http_error", status_code |-> 404]]]
               /\ UNCHANGED <<_mapping, _index, _cleanup_times>>
          ELSE With(SavedParticipants(
                       [_mapping |-> _mapping, _index |-> _index,
                        _cleanup_times |-> _cleanup_times],
                       meeting_id_0, handlers[h].participants),
                    LAMBDA service :
                  /\ _mapping' = service._mapping
                  /\ _index' = service._index
                  /\ _cleanup_times' = service._cleanup_times
                  /\ handlers' = [handlers EXCEPT ![h] =
                        [@ EXCEPT !.pc = "done"] @@
                        [response |->
                            [kind |-> "response", status |-> "ok",
                             participants_count |->
                                Len(handlers[h].participants)]]])
    /\ UNCHANGED <<persisted, received, now, last, result, cache_vars,
                   decode_vars, call_vars>>

(* a request to clear the participants arrives; clear_participants awaits  *)
(* the lookup of the meeting                                               *)
ReceiveClear(h) ==
    /\ Free(h)
    /\ handlers' = [handlers EXCEPT ![h] =
                       [pc |-> "received", endpoint |-> "clear_participants"]]
    /\ received' = received + 1
    /\ UNCHANGED <<persisted, mapping_vars, cache_vars, decode_vars, call_vars>>

(* the lookup of clear_participants returns: 404 without a meeting;        *)
(* otherwise clear_mapping and Response(status_code=204)                   *)
ClearParticipants(h) ==
    /\ handlers[h].pc = "received"
    /\ handlers[h].endpoint = "clear_participants"
    /\ \E session_id \in LatestMeetings(meeting_id_0) :
          IF session_id = None
          THEN /\ handlers' = [handlers EXCEPT ![h] =
                     [@ EXCEPT !.pc = "done"] @@
                     [response |-> [kind |-> "http_error", status_code |-> 404]]]
               /\ UNCHANGED <<_mapping, _index, _cleanup_times>>
          ELSE /\ clear_mapping(meeting_id_0)
               /\ handlers' = [handlers EXCEPT ![h] =
                     [@ EXCEPT !.pc = "done"] @@
                     [response |-> [kind |-> "response", status_code |-> 204]]]
    /\ UNCHANGED <<persisted, received, now, last, result, cache_vars,
                   decode_vars, call_vars>>

(* the answer of a handler is sent: the handler is free again *)
Return(h) ==
    /\ handlers[h].pc = "done"
    /\ handlers' = [handlers EXCEPT ![h] = [pc |-> "idle"]]
    /\ UNCHANGED <<persisted, received, mapping_vars, cache_vars, decode_vars,
                   call_vars>>

(* an hour passes *)
TickIngest ==
    /\ now < MaxIngestClock
    /\ now' = now + 1
    /\ UNCHANGED <<_mapping, _index, _cleanup_times, last, result, cache_vars,
                   decode_vars, call_vars, ingest_vars>>

NextIngest ==
    \/ \E h \in HandlerIds :
          \/ Receive(h) \/ Process(h) \/ LookupFails(h)
          \/ Commit(h) \/ CommitFails(h)
          \/ Refresh(h) \/ RefreshFails(h) \/ Rollback(h) \/ RollbackFails(h)
          \/ ReceiveSync(h) \/ SyncParticipants(h)
          \/ ReceiveClear(h) \/ ClearParticipants(h)
          \/ Return(h)
    \/ TickIngest

SpecIngest == InitIngest /\ [][NextIngest]_vars

(***************************************************************************)
(* Properties of the ingestion specification                               *)
(***************************************************************************)
(* the handler has accepted an event: its frame holds the local variables  *)
Accepted(h) == "device_id_raw" \in DOMAIN handlers[h]

(* the handler of a raw-transcript request has answered *)
Answered(h) == handlers[h].pc = "done"

(* the handler has answered saved=True *)
Saved(h) ==
    /\ Answered(h) /\ Accepted(h)
    /\ handlers[h].response.kind = "response"
    /\ handlers[h].response.saved

(* the dedup key of the event the handler accepted *)
EventKey(h) ==
    get_cache_key(meeting_id_0, handlers[h].message_id, handlers[h].device_id)

(* the event was decoded without a usable device id and got a fallback one *)
UsedFallback(h) ==
    Accepted(h)
    /\ Strip(StripSet(handlers[h].device_id_raw, ServiceChars)) = <<>>

(* C14: two different events that both got a fallback device id have       *)
(* different dedup keys                                                    *)
C14_FallbackKeysDistinct ==
    \A h1, h2 \in HandlerIds :
        (/\ UsedFallback(h1) /\ UsedFallback(h2)
         /\ handlers[h1].request # handlers[h2].request)
        => EventKey(h1) # EventKey(h2)

(* C15: of two handlers given the same request within the cache's time to  *)
(* live, at most one answers saved                                         *)
C15_AtMostOnePersisted ==
    \A h1, h2 \in HandlerIds :
        (/\ h1 # h2
         /\ Accepted(h1) /\ Accepted(h2)
         /\ handlers[h1].request = handlers[h2].request
         /\ now <= cache_ttl_hours)
        => ~(Saved(h1) /\ Saved(h2))

(* the dedup entries written by a step: new keys and keys with new value,  *)
(* the time of the write being part of the value                           *)
Written ==
    IF meeting_id_0 \notin DOMAIN _cache' THEN {}
    ELSE {k \in DOMAIN _cache'[meeting_id_0] :
            \/ meeting_id_0 \notin DOMAIN _cache
            \/ k \notin DOMAIN _cache[meeting_id_0]
            \/ _cache[meeting_id_0][k] # _cache'[meeting_id_0][k]}

(* C16: a handler at db.commit() or beyond has read the dedup cache and    *)
(* found no duplicate; a dedup entry is written only by the step in which  *)
(* a handler answers saved, for the key of its event, after its            *)
(* db.commit() and db.refresh() have returned: never for a request that    *)
(* was not decoded, lacks text or device id, was reported duplicate or     *)
(* failed to be stored                                                     *)
C16_WrittenAfterPersisted ==
    [][ /\ \A h \in HandlerIds :
              handlers'[h].pc
                 \in {"commit", "refresh", "rollback_integrity", "rollback"}
              => handlers'[h].is_duplicate = FALSE
        /\ \A k \in Written :
              \E h \in HandlerIds :
                 /\ handlers[h].pc = "refresh"
                 /\ handlers'[h].pc = "done"
                 /\ handlers'[h].response.kind = "response"
                 /\ handlers'[h].response.saved
                 /\ ~handlers[h].is_duplicate
                 /\ k = EventKey(h)
                 /\ Segment(handlers[h]) \in persisted ]_vars

(* an event was stored and recorded; an hour later the same event is       *)
(* reported duplicate and the entry still carries the time of the first    *)
(* write, and another event failed at db.commit() and left no entry        *)
C16_Witness ==
    \E h1, h2 \in HandlerIds :
        /\ Answered(h1) /\ Accepted(h1) /\ handlers[h1].is_duplicate
        /\ meeting_id_0 \in DOMAIN _cache
        /\ EventKey(h1) \in DOMAIN _cache[meeting_id_0]
        /\ _cache[meeting_id_0][EventKey(h1)].processed_at < now
        /\ Segment(handlers[h1]) \in persisted
        /\ Answered(h2) /\ Accepted(h2) /\ ~handlers[h2].is_duplicate
        /\ handlers[h2].response.kind = "response"
        /\ handlers[h2].response.error = "Failed to save segment"
        /\ EventKey(h2) \notin DOMAIN _cache[meeting_id_0]

(***************************************************************************)
(* Protobuf specification: _decode_protobuf applied to one decompressed    *)
(* buffer                                                                  *)
(***************************************************************************)
(* _decode_protobuf refuses a buffer of fewer than 10 bytes *)
MinProtobufLen == 10

(* n bytes of value b *)
Fill(n, b) == [i \in 1..n |-> b]

(* a buffer of MinProtobufLen bytes with byte 16 at offset p alone, the     *)
(* next byte after it, zero elsewhere; p = MinProtobufLen: no byte 16      *)
MarkerBuffer(p, next) ==
    [i \in 1..MinProtobufLen |->
        IF i = p + 1 THEN 16 ELSE IF i = p + 2 THEN next ELSE 0]

MarkerBuffers == {MarkerBuffer(p, next) : p \in 0..MinProtobufLen, next \in {0, 1}}

text_tab == <<97, 9, 98>>
text_ctl == <<97, 1, 98>>
text_pad == <<32, 97, 32>>
text_like == text_hi_there \o <<32>> \o text_hi_there \o <<32>> \o text_hi_there
id_spaces_blank == spaces_ \o Fill(24, 32)

(* [16,1, pre, mid, 50, length byte, body, 8 zero bytes]: pre is nothing,   *)
(* a device id under tag 98, or a text field "zz" without timestamp; mid   *)
(* is the timestamp field before tag 50, with a varint of one or two       *)
(* bytes, with 3 or 10 bytes between it and tag 50, or nothing             *)
TextBuffers ==
    {<<16, 1>> \o pre \o mid \o <<50, body[1]>> \o body[2] \o Fill(8, 0) :
        pre \in {<<>>, <<98, 4>> \o id_dev1, <<50, 2, 122, 122>>},
        mid \in {<<>>, <<24, 5>>, <<24, 133, 5>>, <<24, 5, 0, 0, 0>>,
                 <<24, 5>> \o Fill(10, 0)},
        body \in {<<4, text_test>>, <<3, text_tab>>, <<3, text_ctl>>,
                  <<3, text_pad>>, <<0, <<>> >>, <<201, Fill(201, 97)>>,
                  <<60, text_test>>}}

(* [16,1, gap zero bytes, tag, 4, "dev1", 24,5,50,4,"test", 0,0]: the tag   *)
(* byte inside, at the end of and beyond the 100 bytes approach 1 scans    *)
Tag3Buffers ==
    {<<16, 1>> \o Fill(gap, 0) \o <<tag, 4>> \o id_dev1
        \o <<24, 5, 50, 4>> \o text_test \o <<0, 0>> :
        gap \in {0, 50, 99, 100, 101}, tag \in {3, 7}}

(* a string that reads like text under each device-id tag; the nested      *)
(* structure with ids of 31 characters; the id before the start marker;    *)
(* an id of three-byte characters under each device-id tag                 *)
IdBuffers ==
    {<<16, 1, tag, Len(text_like)>> \o text_like
        \o <<24, 5, 50, 4>> \o text_test \o <<0, 0>> : tag \in {3, 98, 10}}
    \cup {NestedBuffer(id, U32(7), U32(2)) :
            id \in {id_spaces_j5, id_spaces_31, id_spaces_blank, Fill(31, 97)}}
    \cup {ScenarioBuffer(id, U32(7), U32(2)) : id \in {id_spaces_j5, id_spaces_blank}}
    \cup {id_spaces_ABC \o <<16, 1, 24, 5, 50, 4>> \o text_test}
    \cup {<<16, 1, tag, Len(utf8_cjk)>> \o utf8_cjk
            \o <<16, 1, 24, 5, 50, 4>> \o text_test \o <<0, 0, 0, 0>> :
            tag \in {3, 98, 10}}

ProtoBuffers == MarkerBuffers \cup TextBuffers \cup Tag3Buffers \cup IdBuffers

InitProto ==
    /\ call \in {[data |-> b] : b \in ProtoBuffers}
    /\ returned = NotYet
    /\ DecodeIdle
    /\ MappingIdle
    /\ CacheIdle
    /\ IngestIdle

(* decoded = self._decode_protobuf(decompressed) *)
DecodeProtobuf ==
    /\ returned = NotYet
    /\ returned' = _decode_protobuf(call.data)
    /\ UNCHANGED <<call, decode_vars, mapping_vars, cache_vars, ingest_vars>>

NextProto == DecodeProtobuf

SpecProto == InitProto /\ [][NextProto]_vars

(***************************************************************************)
(* Properties of the protobuf specification                                *)
(***************************************************************************)
(* the buffer was decoded and a result returned *)
ProtoReturned == returned # NotYet /\ ~returned.raised

(* where _decode_protobuf starts the search for the text: the end of the   *)
(* device-id match, or the data start when no device id was found          *)
TextSearchFrom(data) ==
    LET start_idx == _find_data_start(data)
        dev == _extract_device_id(data, start_idx)
    IN  IF dev[1] # None THEN dev[2] ELSE start_idx

(* the offsets from which tag byte 24 is followed, after its varint and    *)
(* within 10 bytes, by tag byte 50; the offsets of a tag byte 50 whose     *)
(* length byte is in (0, 200]                                              *)
ChainedTags(data, from) ==
    {i \in from..(Len(data) - 2) :
        /\ At(data, i) = 24
        /\ \E k \in VarintEnd(data, i + 1)
                    ..(Min(VarintEnd(data, i + 1) + 10, Len(data)) - 1) :
              At(data, k) = 50}

DirectTags(data, from) ==
    {i \in from..(Len(data) - 2) :
        At(data, i) = 50 /\ At(data, i + 1) \in 1..200}

(* the text of the stated rule, the empty string when there is none; kept  *)
(* are the non-printable characters that cleaning leaves in place          *)
TextAsStated(data, from, kept) ==
    LET chained == ChainedTags(data, from)
        direct == DirectTags(data, from)
        least(S) == CHOOSE i \in S : \A j \in S : i <= j
        tag == IF chained # {}
               THEN least({k \in VarintEnd(data, least(chained) + 1)
                                  ..(Len(data) - 1) : At(data, k) = 50})
               ELSE IF direct # {} THEN least(direct) ELSE -1
    IN  IF tag < 0 \/ tag + 1 >= Len(data) THEN <<>>
        ELSE LET str_len == At(data, tag + 1)
             IN  IF str_len \notin 1..200 \/ tag + 2 + str_len > Len(data)
                 THEN <<>>
                 ELSE Strip(SelectSeq(
                        decode_replace(Slice(data, tag + 2, tag + 2 + str_len)),
                        LAMBDA c : IsPrintable(c) \/ c \in kept))

(* C21 as stated: the returned text is the length-prefixed string after    *)
(* the chained tag 50, or else after the directly scanned one, with every  *)
(* non-printable character removed, and trimmed                            *)
C21_AsStated ==
    ProtoReturned
    => returned.value.text
          = TextAsStated(call.data, TextSearchFrom(call.data), {})

(* C21: the returned text is the length-prefixed string after the chained  *)
(* tag 50, or else after the directly scanned one, with the non-printable  *)
(* characters other than line feed, carriage return and tab removed, and   *)
(* trimmed                                                                 *)
C21_TextFromChainedTag ==
    ProtoReturned
    => returned.value.text
          = TextAsStated(call.data, TextSearchFrom(call.data), {10, 13, 9})

(* a text field without timestamp comes first, the chained one after it    *)
(* is taken, and its text keeps the tab                                    *)
C21_Witness ==
    /\ ProtoReturned
    /\ call.data = <<16, 1, 50, 2, 122, 122, 24, 5, 50, 3>> \o text_tab
                      \o Fill(8, 0)
    /\ returned.value.text = text_tab

(* C22: a buffer of at least 10 bytes fails with the start-marker error    *)
(* exactly when none of its bytes is 16; otherwise the data start is the   *)
(* offset of the first byte 16 plus 2 when byte 1 follows it, plus 1       *)
(* otherwise                                                               *)
C22_MarkerIff ==
    (returned # NotYet /\ Len(call.data) >= MinProtobufLen)
    => LET data == call.data
           first16 == First(0, Len(data) - 1, LAMBDA i : At(data, i) = 16)
       IN  /\ (returned.raised /\ returned.at = "start_marker") <=> first16 < 0
           /\ first16 >= 0
              => _find_data_start(data)
                    = IF first16 + 1 < Len(data) /\ At(data, first16 + 1) = 1
                      THEN first16 + 2 ELSE first16 + 1

(* C23: when approach 1 returns a device id, the byte before the id's      *)
(* length byte is 3; without a byte 3 in the 100 bytes it scans it         *)
(* returns nothing                                                         *)
C23_OnlyFromByte3 ==
    returned # NotYet
    => LET data == call.data
           start_idx == _find_data_start(data)
           found == DeviceIdByte3(data, start_idx)
       IN  (start_idx # NoneInt /\ found # None)
           => \E tag_idx \in start_idx..(Min(start_idx + 100, Len(data)) - 1) :
                 /\ At(data, tag_idx) = 3
                 /\ found[2] = tag_idx + 2 + At(data, tag_idx + 1)

(* C25: a device id that decoding returns passes _is_valid_device_id, or   *)
(* comes from the nested structure and contains "spaces/" or "/devices/";  *)
(* without device id the text is still extracted, from the data start      *)
C25_FailsClosed ==
    ProtoReturned
    => LET data == call.data
           device_id == returned.value.device_id
           text == _extract_text(data, _find_data_start(data))
       IN  /\ \/ device_id = <<>>
              \/ _is_valid_device_id(device_id)
              \/ /\ DeviceIdNested(data) # None
                 /\ DeviceIdNested(data)[1] = device_id
                 /\ Contains(device_id, spaces_) \/ Contains(device_id, _devices_)
           /\ device_id = <<>>
              => returned.value.text = IF text = None THEN <<>> ELSE text

(* a string that reads like text stands under tag 3: no device id, and the *)
(* text after it is returned                                               *)
C25_Witness ==
    /\ ProtoReturned
    /\ call.data = <<16, 1, 3, Len(text_like)>> \o text_like
                      \o <<24, 5, 50, 4>> \o text_test \o <<0, 0>>
    /\ returned.value.device_id = <<>>
    /\ returned.value.text = text_test

(***************************************************************************)
(* Properties of the resolution and mapping specifications: the suffix     *)
(* after "spaces/" and the targets of the index                            *)
(***************************************************************************)
(* the lookup just made was of an id with "spaces/" that neither the id    *)
(* itself, nor its cleaned form, nor its part after "devices/" resolved,   *)
(* and whose part after "spaces/" is a key of the meeting's index          *)
SpacesSuffixLookedUp ==
    /\ result # NotYet
    /\ result.meeting_id \in DOMAIN _mapping
    /\ LET mapping == _mapping[result.meeting_id]
           index == _index[result.meeting_id]
           device_id == result.device_id
           cleaned_id == _clean_device_id(device_id)
       IN  /\ Contains(device_id, spaces_)
           /\ device_id \notin DOMAIN mapping
           /\ ~(cleaned_id # <<>> /\ cleaned_id # device_id
                /\ cleaned_id \in DOMAIN mapping \cup DOMAIN index)
           /\ ~(Contains(device_id, devices_)
                /\ SplitLast(device_id, devices_) \in DOMAIN index)
           /\ SplitLast(device_id, spaces_) \in DOMAIN index

(* the name of the entry that owns the part after "spaces/" *)
SpacesSuffixName ==
    _mapping[result.meeting_id]
        [_index[result.meeting_id][SplitLast(result.device_id, spaces_)]].name

C26_IndexTargetsExist ==
    \A m \in DOMAIN _index :
        /\ m \in DOMAIN _mapping
        /\ \A k \in DOMAIN _index[m] : _index[m][k] \in DOMAIN _mapping[m]

(* more than the time to live has passed, one meeting is gone from the    *)
(* index, and in the other a lookup by a variant found the entry the       *)
(* index leads to                                                          *)
C26_Witness ==
    /\ last # NotYet
    /\ \E m \in DOMAIN _index :
          \E k \in DOMAIN _index[m] :
             /\ _index[m][k] # k
             /\ result # NotYet
             /\ result.meeting_id = m
             /\ result.device_id = k
             /\ result.name = _mapping[m][_index[m][k]].name
    /\ \E m \in Meetings : m \notin DOMAIN _index
    /\ now > ttl_hours

(***************************************************************************)
(* Properties of the ingestion specification: what is persisted            *)
(***************************************************************************)
(* "Unknown (" + the last 4 characters of the device id + ")" *)
UnknownName(device_id) ==
    <<85, 110, 107, 110, 111, 119, 110, 32, 40>>
    \o SubSeq(device_id, Max(1, Len(device_id) - 3), Len(device_id))
    \o <<41>>

(* a stored segment is well formed but for its speaker name: non-empty     *)
(* text, a non-empty device id of at most 500 printable characters, a      *)
(* non-empty speaker name                                                  *)
WellFormed(row) ==
    /\ row.text # <<>>
    /\ row.google_meet_user_id # <<>>
    /\ Len(row.google_meet_user_id) <= 500
    /\ \A j \in 1..Len(row.google_meet_user_id) :
          IsPrintable(row.google_meet_user_id[j])
    /\ row.speaker_username # <<>>

(* C27 as stated: every event persisted has a non-empty text, a non-empty  *)
(* device id of at most 500 printable characters and a non-empty speaker   *)
(* name, which is the mapped name or "Unknown (" + last 4 characters of    *)
(* the device id + ")"; every dedup entry has a non-empty text             *)
C27_AsStated ==
    /\ \A row \in persisted :
          /\ WellFormed(row)
          /\ row.speaker_username
                \in IngestNames \cup {UnknownName(row.google_meet_user_id)}
    /\ \A m \in DOMAIN _cache :
          \A k \in DOMAIN _cache[m] : _cache[m][k].text # <<>>

(* C27: every event persisted has a non-empty text, a non-empty device id  *)
(* of at most 500 printable characters and a non-empty speaker name of at  *)
(* most 200 characters, which is the first 200 characters of the mapped    *)
(* name or "Unknown (" + last 4 characters of the device id + ")"; every   *)
(* dedup entry has a non-empty text                                        *)
C27_PersistedWellFormed ==
    /\ \A row \in persisted :
          /\ WellFormed(row)
          /\ Len(row.speaker_username) <= speaker_username_length
          /\ row.speaker_username
                \in {Slice(name, 0, speaker_username_length) :
                        name \in IngestNames}
                    \cup {UnknownName(row.google_meet_user_id)}
    /\ \A m \in DOMAIN _cache :
          \A k \in DOMAIN _cache[m] : _cache[m][k].text # <<>>
    /\ \A h \in HandlerIds :
          (Accepted(h) /\ handlers[h].pc \in {"commit", "refresh"})
          => handlers[h].username
                \in {Slice(name, 0, speaker_username_length) :
                        name \in IngestNames}
                    \cup {UnknownName(handlers[h].device_id)}

(* the participant was synchronised with a name of 201 characters: the     *)
(* event decoded with device id "\x0e" + "dev1" is persisted under "dev1"  *)
(* with the first 200 characters of the name and recorded in the dedup     *)
(* cache                                                                   *)
C27_Witness ==
    \E h \in HandlerIds :
        /\ Saved(h)
        /\ handlers[h].device_id_raw = id_ctl_dev1
        /\ meeting_id_0 \in DOMAIN _mapping
        /\ find_name_by_device_id(meeting_id_0, id_dev1) = name_long
        /\ Segment(handlers[h]) \in persisted
        /\ Segment(handlers[h]).google_meet_user_id = id_dev1
        /\ Segment(handlers[h]).speaker_username
              = Slice(name_long, 0, speaker_username_length)
        /\ meeting_id_0 \in DOMAIN _cache
        /\ EventKey(h) \in DOMAIN _cache[meeting_id_0]

(***************************************************************************)
(* Isolation specification: the calls of both services made for two        *)
(* meetings with the same device ids and message ids, the two sweeps, and   *)
(* the passing of time                                                     *)
(***************************************************************************)
MaxIsolationClock == 2

(* the save_mapping calls made for each meeting: <<device_id, name, variants>> *)
IsolationSaveCalls == {<<id_num, name_al, <<id_x>> >>, <<id_num, name_bo, <<>> >>}
(* the message ids of the events of each meeting, all of the device       *)
(* id_num, the content recorded for them and the contents asked for        *)
IsolationMessageIds == {U32(1)}
IsolationRecorded == {<<text_a, U32(1)>>}
IsolationContents == {<<text_a, U32(1)>>, <<text_b, U32(1)>>}

InitIsolation ==
    MappingIdle /\ DecodeIdle /\ CacheIdle /\ CallIdle /\ IngestIdle

IsolationSave ==
    \E m \in Meetings, c \in IsolationSaveCalls :
        /\ save_mapping(m, c[1], c[2], c[3])
        /\ last' = [op |-> "save_mapping", meeting_id |-> m]
        /\ UNCHANGED <<result, now, decode_vars, cache_vars, call_vars,
                       ingest_vars>>

IsolationClear ==
    \E m \in Meetings :
        /\ clear_mapping(m)
        /\ last' = [op |-> "clear_mapping", meeting_id |-> m]
        /\ UNCHANGED <<result, now, decode_vars, cache_vars, call_vars,
                       ingest_vars>>

IsolationRecord ==
    \E m \in Meetings, i \in IsolationMessageIds, c \in IsolationRecorded :
        /\ _cache' = cache_message(m, i, id_num, c[1], c[2])
        /\ last' = [op |-> "cache_message", meeting_id |-> m]
        /\ UNCHANGED <<recorded, evicted, result, now, _mapping, _index,
                       _cleanup_times, decode_vars, call_vars, ingest_vars>>

IsolationIsDuplicate ==
    \E m \in Meetings, i \in IsolationMessageIds :
        /\ _cache' = is_duplicate_cache(m, i, id_num)
        /\ last' = [op |-> "is_duplicate", meeting_id |-> m]
        /\ UNCHANGED <<recorded, evicted, result, now, _mapping, _index,
                       _cleanup_times, decode_vars, call_vars, ingest_vars>>

(* MappingService.cleanup_expired() and MessageCacheService.cleanup_expired() *)
IsolationSweepMappings ==
    /\ mapping_cleanup_expired
    /\ last' = [op |-> "mapping_cleanup_expired", meeting_id |-> None,
                 removed |-> DOMAIN _mapping \ DOMAIN _mapping']
    /\ UNCHANGED <<result, now, decode_vars, cache_vars, call_vars,
                   ingest_vars>>

IsolationSweepCache ==
    /\ _cache' = cache_cleanup_expired
    /\ last' = [op |-> "cache_cleanup_expired", meeting_id |-> None,
                 removed |-> DOMAIN _cache \ DOMAIN _cache']
    /\ UNCHANGED <<recorded, evicted, result, now, _mapping, _index,
                   _cleanup_times, decode_vars, call_vars, ingest_vars>>

(* an hour passes; or, in the end, more than the mappings' time to live *)
IsolationTick ==
    /\ \/ now < MaxIsolationClock /\ now' = now + 1
       \/ now = MaxIsolationClock /\ now' = now + ttl_hours + 1
    /\ UNCHANGED <<cache_vars, result, last, _mapping, _index, _cleanup_times,
                   decode_vars, call_vars, ingest_vars>>

NextIsolation ==
    \/ IsolationSave \/ IsolationClear \/ IsolationRecord
    \/ IsolationIsDuplicate \/ IsolationSweepMappings \/ IsolationSweepCache
    \/ IsolationTick

SpecIsolation == InitIsolation /\ [][NextIsolation]_vars

(* what the lookups of a meeting return: resolve for a canonical id, a     *)
(* variant and an id with a leading control character, isDuplicate for     *)
(* every event                                                             *)
IsolationLookupIds == {id_num, id_x, id_ctl}

Answers(m) ==
    [resolve |-> [d \in IsolationLookupIds |-> find_name_by_device_id(m, d)],
     isDuplicate |-> [e \in IsolationMessageIds \X IsolationContents |->
                         is_duplicate(m, e[1], id_num, e[2][1], e[2][2])]]

(* the calls made for one meeting *)
MeetingOps == {"save_mapping", "clear_mapping", "cache_message", "is_duplicate"}

(* C28: a saveMapping, clear, record or isDuplicate call made for one      *)
(* meeting changes no answer of resolve or isDuplicate for another meeting *)
C28_MeetingsIsolated ==
    [][\A m \in Meetings :
          (/\ last' # NotYet /\ now' = now
           /\ last'.op \in MeetingOps /\ last'.meeting_id # m)
          => Answers(m)' = Answers(m)]_vars

(* meeting m1 was just cleared, or its expired event just removed, while   *)
(* meeting m2 holds a name and a live event under the same ids             *)
C28_Witness ==
    /\ last # NotYet
    /\ last.meeting_id = meeting_1
    /\ last.op \in {"clear_mapping", "is_duplicate"}
    /\ meeting_1 \notin DOMAIN _mapping
    /\ meeting_1 \notin DOMAIN _cache
    /\ find_name_by_device_id(meeting_2, id_x) = name_al
    /\ is_duplicate(meeting_2, U32(1), id_num, text_a, U32(1))
    /\ now = MaxIsolationClock

(* C13: whatever saveMapping, clear, record, isDuplicate and the two       *)
(* sweeps did before, in whatever order, resolve returns a name or None    *)
(* and isDuplicate a boolean: no call raises                               *)
C13_NoServiceError ==
    \A m \in Meetings :
        /\ \A d \in IsolationLookupIds :
              find_name_by_device_id(m, d) \in {None, name_al, name_bo}
        /\ \A e \in IsolationMessageIds \X IsolationContents :
              is_duplicate(m, e[1], id_num, e[2][1], e[2][2]) \in BOOLEAN

(* a sweep has just removed what meeting m1 held, mapping and cache, after *)
(* its time to live; meeting m2 resolves a name through the index and      *)
(* reports a duplicate                                                     *)
C13_Witness ==
    /\ last # NotYet
    /\ last.op \in {"mapping_cleanup_expired", "cache_cleanup_expired"}
    /\ now > ttl_hours
    /\ meeting_1 \in last.removed
    /\ meeting_1 \notin DOMAIN _mapping
    /\ meeting_1 \notin DOMAIN _cache
    /\ find_name_by_device_id(meeting_2, id_x) = name_al
    /\ is_duplicate(meeting_2, U32(1), id_num, text_a, U32(1))

(***************************************************************************)
(* Key specification: get_cache_key applied to two events of one meeting   *)
(***************************************************************************)
(* "/7", "1/7", "none/7", "none", ":7", "m1:messages:1/7" *)
id_slash == <<47, 55>>
id_one_slash == <<49, 47, 55>>
id_none_slash == none_ \o <<47, 55>>
id_colon == <<58, 55>>
id_keylike == meeting_1 \o _messages_ \o <<49, 47, 55>>

KeyMessageIds == {None, U32(0), U32(1), U32(11)}
KeyDeviceIds ==
    {<<>>, id_num, id_slash, id_one_slash, id_none_slash, none_, id_colon,
     id_keylike}
(* the events: <<message_id, device_id>> *)
KeyEvents == KeyMessageIds \X KeyDeviceIds

InitKey ==
    /\ call \in {[fn |-> "get_cache_key", first |-> a, second |-> b] :
                   a \in KeyEvents, b \in KeyEvents}
    /\ returned = NotYet
    /\ DecodeIdle
    /\ MappingIdle
    /\ CacheIdle
    /\ IngestIdle

GetCacheKey ==
    /\ returned = NotYet
    /\ returned' =
          [first |-> get_cache_key(meeting_1, call.first[1], call.first[2]),
           second |-> get_cache_key(meeting_1, call.second[1], call.second[2])]
    /\ UNCHANGED <<call, decode_vars, mapping_vars, cache_vars, ingest_vars>>

NextKey == GetCacheKey

SpecKey == InitKey /\ [][NextKey]_vars

(* C29: two events of one meeting get the same dedup key only if they have *)
(* the same device id and the same message id, both absent or both the     *)
(* same integer                                                            *)
C29_KeyInjective ==
    (returned # NotYet /\ returned.first = returned.second)
    => /\ call.first[2] = call.second[2]
       /\ call.first[1] = call.second[1]

(* the keys of message 1 of device "1/7" and of message 11 of device "/7", *)
(* "m1:messages:1/1/7" and "m1:messages:11//7", were computed and differ   *)
C29_Witness ==
    /\ returned # NotYet
    /\ call.first = <<U32(1), id_one_slash>>
    /\ call.second = <<U32(11), id_slash>>
    /\ returned.first = meeting_1 \o _messages_ \o <<49, 47, 49, 47, 55>>
    /\ returned.second = meeting_1 \o _messages_ \o <<49, 49, 47, 47, 55>>

(***************************************************************************)
(* Properties of the cache specification: what a lookup leaves             *)
(***************************************************************************)
(* the step is a call of is_duplicate: it leaves the answer in result *)
LookupStep == result' # NotYet /\ result' # result

(* C30: a call of is_duplicate writes and refreshes nothing: every entry   *)
(* it leaves was there before with the same text, version and              *)
(* processed_at; the only entry it removes is the one it looked up, when   *)
(* that is older than an hour, and no empty bucket is left                 *)
C30_LookupWritesNothing ==
    [][LookupStep =>
         LET cache_key == get_cache_key(result'.meeting_id, result'.message_id,
                                        result'.device_id)
         IN  /\ \A m \in DOMAIN _cache' :
                   /\ m \in DOMAIN _cache
                   /\ DOMAIN _cache'[m] # {}
                   /\ \A k \in DOMAIN _cache'[m] :
                         /\ k \in DOMAIN _cache[m]
                         /\ _cache'[m][k] = _cache[m][k]
             /\ \A m \in DOMAIN _cache :
                   \A k \in DOMAIN _cache[m] :
                      (m \notin DOMAIN _cache' \/ k \notin DOMAIN _cache'[m])
                      => /\ m = result'.meeting_id
                         /\ k = cache_key
                         /\ _cache[m][k].processed_at + cache_ttl_hours < now]_vars

(* at hour 2 an event recorded at hour 1 was just reported duplicate and   *)
(* still carries hour 1, after a lookup removed another event as expired   *)
C30_Witness ==
    /\ result # NotYet
    /\ result.duplicate
    /\ result.at = MaxCacheClock
    /\ now = MaxCacheClock
    /\ LET cache_key == get_cache_key(result.meeting_id, result.message_id,
                                      result.device_id)
       IN  /\ result.meeting_id \in DOMAIN _cache
           /\ cache_key \in DOMAIN _cache[result.meeting_id]
           /\ _cache[result.meeting_id][cache_key].processed_at = now - 1
    /\ evicted # {}
====
